---- MODULE Spec2Model ----
(***************************************************************************)
(* Multi-tenant authentication bridge of the egav web frontend.            *)
(*                                                                         *)
(* One page load of the single-page application, opened on the callback    *)
(* route: the BootstrapProvider (tenant resolution and its process-wide    *)
(* cache), the OIDC helpers (exchangeCodeForTokens, refreshAccessToken),   *)
(* the token cookies, the AuthCallbackPage effect (Callback Orchestrator)  *)
(* and useTokenRefresh (Refresh Scheduler).                                *)
(*                                                                         *)
(* React runs the passive effects of one commit children first, so the     *)
(* effects of a commit are kept in effectQueue in that order and are run   *)
(* one per step; promise continuations and timers run only when no effect  *)
(* is pending.  The repository holds two BootstrapContext implementations  *)
(* and two AuthCallbackPage implementations; build selects which one the   *)
(* page runs and never changes.                                            *)
(***************************************************************************)
EXTENDS Integers, Sequences, FiniteSets, TLC

\* ------------------------------------------------------------------ bounds
MaxLoads == 2      \* tenant resolutions started in one page load (mount + reload)
MaxCalls == 2      \* calls of the callback page in flight, and exchanges started
MaxNow == 1        \* clock ticks of TickMs the model follows
MaxRefreshes == 1  \* refresh timers that fire in one page load
MaxAuthRedirects == 2 \* calls of startAuthRedirect that wait for sha256 at once

\* ------------------------------------------------------- program constants
LeadTimeMs == 60000
DefaultExpiresIn == 3600
FragmentRefreshMaxAge == 2592000
DefaultRefreshMaxAge == 1800

\* The clock advances in steps of half the lead time.
TickMs == LeadTimeMs \div 2
UserFreshMs == 300000  \* TopNav: 5 * 60 * 1000 ms, how long a stored user is taken as it is

\* Encodings of null / undefined, of an absent number and of the number NaN.
NULL == "null"
NoNum == 0 - 1
NaN == 0 - 2

Max(a, b) == IF a >= b THEN a ELSE b

\* ------------------------------------------------------------ input domains
Builds == {"v1", "v2", "legacy"}

\* TenantConfig bundles the resolution endpoint can return (cfgC, which names
\* no AuthN service, is followed on the login page only), and the bundle the
\* second BootstrapContext builds from the environment when it fails:
\* fallbackConfig with REACT_APP_AUTHN_BASE_URL set, fallbackDefault (the
\* address written in the code) without it.
ConfigData ==
  [cfgA |-> [issuer |-> "issuerA", keycloak_url |-> "kcA",
             client_id |-> "clientA", authn_url |-> "authnA"],
   cfgB |-> [issuer |-> NULL, keycloak_url |-> "kcB",
             client_id |-> NULL, authn_url |-> "authnB"],
   cfgC |-> [issuer |-> "issuerC", keycloak_url |-> "kcC",
             client_id |-> "clientC", authn_url |-> NULL],
   fallbackConfig |-> [issuer |-> NULL, keycloak_url |-> "kcEnv",
             client_id |-> NULL, authn_url |-> "authnEnv"],
   fallbackDefault |-> [issuer |-> NULL, keycloak_url |-> "kcEnv",
             client_id |-> NULL, authn_url |-> "authnDefault"]]

ServerConfigs == {"cfgA", "cfgB"}

\* payload.exp * 1000 / 1000 of each access token: the expiry claim (seconds)
\* of a token that carries one, NaN for Anoexp, whose payload decodes and
\* has no exp, and nothing for Abad, which is no three-part token: atob or
\* JSON.parse throws on it.
TokenExp == [A0 |-> 0, A60 |-> 60, A90 |-> 90, Abad |-> NoNum, Anoexp |-> NaN]

\* Token endpoint responses (TokenResponse).
TokenData ==
  [T1 |-> [access_token |-> "A90", id_token |-> "I1", expires_in |-> 90,
           refresh_token |-> "R1", refresh_expires_in |-> 3600],
   T2 |-> [access_token |-> "A60", id_token |-> "I1", expires_in |-> 60,
           refresh_token |-> NULL, refresh_expires_in |-> NoNum]]

TokenResponses == {"T1", "T2"}

AccessHints == {"ok", "contact_admin", "personal_org_created"}

\* What searchParams.get('error_description') can return, the query string
\* decoded once by URLSearchParams: nothing, a text, a text that still
\* carries a '+' and an escape, and a text with a '%' that starts no escape
\* (the query ?error_description=100%25+failed).
ErrorDescriptions == {NULL, "Access denied", "Try+again%21", "100% failed"}

\* Callback URLs: err is the error indicator (error=... or
\* kc_action_status=error), error_description what the query carries under
\* that name; the h_ fields are the fragment parameters.
NoHash == [h_access |-> NULL, h_expires |-> NoNum, h_refresh |-> NULL, h_id |-> NULL,
           h_refresh_expires |-> NoNum]

NoError == [err |-> FALSE, error_description |-> NULL]

CallbackUrls ==
  { [code |-> "c1", state |-> "s1"] @@ NoError @@ NoHash,
    [code |-> "c1", state |-> "s2"] @@ NoError @@ NoHash,
    [code |-> NULL, state |-> "s1"] @@ NoError @@ NoHash,
    [code |-> NULL, state |-> NULL] @@ NoError @@ NoHash,
    [code |-> NULL, state |-> NULL, h_access |-> "A90",
     h_expires |-> 90, h_refresh |-> NULL, h_id |-> NULL,
     h_refresh_expires |-> NoNum] @@ NoError,
    [code |-> "c1", state |-> "s1", h_access |-> "A60",
     h_expires |-> NoNum, h_refresh |-> "R1", h_id |-> "I1",
     h_refresh_expires |-> 3600] @@ NoError }
  \cup
  { [err |-> TRUE, error_description |-> d, code |-> "c1", state |-> "s1"]
      @@ NoHash : d \in ErrorDescriptions }
  \cup
  { [err |-> TRUE, error_description |-> d, code |-> NULL, state |-> NULL,
     h_access |-> "A90", h_expires |-> 90, h_refresh |-> NULL, h_id |-> NULL,
     h_refresh_expires |-> NoNum] : d \in ErrorDescriptions }

NoCookies == [access |-> NULL, accessMaxAge |-> NoNum,
              refresh |-> NULL, refreshMaxAge |-> NoNum]

ExpiredCookies ==
  [access |-> "A0", accessMaxAge |-> 60, refresh |-> "R0", refreshMaxAge |-> 1800]

InitialCookies ==
  { NoCookies,
    [access |-> "A60", accessMaxAge |-> 60, refresh |-> "R0", refreshMaxAge |-> 1800],
    ExpiredCookies }

\* The store the browser arrives with.  The scheduler and TopNav read the
\* store at mount and never the URL; the branches of the callback effect read
\* the URL and never the store.  A stored pair is followed on one callback
\* of each branch (code and state, fragment, nothing at all), and the
\* expired pair on the last of them.  The legacy page is mounted without
\* the scheduler and without TopNav.
InitialCookiesOf(b, u) ==
  IF b = "legacy" THEN {NoCookies}
  ELSE IF u.err \/ u.h_refresh # NULL \/ u.state = "s2"
          \/ ((u.code = NULL) # (u.state = NULL))
    THEN {NoCookies}
  ELSE IF u.code = NULL /\ u.h_access = NULL THEN InitialCookies
  ELSE InitialCookies \ {ExpiredCookies}

EnvAuthnUrls == {NULL, "authnEnv"}

\* REACT_APP_CONTROL_PLANE_BASE_URL, unset or set.  The first
\* BootstrapContext refuses to resolve the tenant without it; the second
\* falls back to an address written in the code and the earlier page is
\* mounted without a provider, so their page loads do not depend on it.
EnvControlPlaneUrls(b) == IF b = "v1" THEN {NULL, "cpEnv"} ELSE {"cpEnv"}

\* What randomString can return in startAuthRedirect.
FreshStates == {"s2"}
FreshVerifiers == {"v2"}

EnvIssuer == <<"envIssuer">>
EnvRedirectUri == <<"envRedirectUri">>
DefaultClientId == "synaptagrid-local"

\* sessionStorage holds no user entry.
NoStoredUser == [name |-> NULL, email |-> NULL]

\* No answer of the identity bridge was consumed yet.
NoBridgeAnswer == [kind |-> "none", body |-> "", authorization_url |-> NULL]

\* The portal effect has not run yet.
NoDeps == <<"never">>

\* No cookie domain: null, or the empty string.
NoDomain == <<>>

\* No cookie name in the environment: the variable is unset, or empty.
NoName == <<>>

\* No operation of the token store has run yet.
NoOp == [op |-> "none", value |-> <<>>, maxAge |-> NoNum, domain |-> <<>>,
         host |-> <<>>, accessBefore |-> <<>>, refreshBefore |-> <<>>,
         count |-> 0]

VARIABLES
  build,              \* which implementation pair the page runs
  url,                \* location of the callback page (query and fragment)
  envAuthnUrl,        \* process.env.REACT_APP_AUTHN_BASE_URL
  envControlPlaneUrl, \* process.env.REACT_APP_CONTROL_PLANE_BASE_URL
  pkce,               \* sessionStorage: synaptagrid_oidc_state / _verifier
  cookies,            \* document.cookie: the two token cookies
  config,             \* BootstrapProvider state: config
  loading,            \* BootstrapProvider state: loading
  error,              \* BootstrapProvider state: error
  cachedBootstrapConfig, \* module-level cache behind getBootstrapConfig
  loads,              \* tenant resolutions in flight (their ids)
  loadsStarted,       \* number of tenant resolutions started
  latestLoadResult,   \* how the resolution started last ended (its bundle)
  effectQueue,        \* passive effects of the last commit, in running order
  status,             \* AuthCallbackPage state: status
  message,            \* AuthCallbackPage state: message
  accessHint,         \* AuthCallbackPage state: accessHint (its action)
  userEmail,          \* AuthCallbackPage state: userEmail
  hasExchangedRef,    \* AuthCallbackPage ref: the latch
  lastBranch,         \* branch the last evaluation of the callback effect took
  calls,              \* network calls in flight, with what their closure holds
  tokenReqLog,        \* requests sent to a token endpoint, in order
  exchangeCalls,      \* invocations of exchangeCodeForTokens
  timer,              \* the refresh timer of useTokenRefresh
  refreshes,          \* number of refresh timers that fired
  lastRefresh,        \* how the last refresh grant ended ("none" before any)
  mounted,            \* App is mounted (the effect of useTokenRefresh is live)
  pendingTimers,      \* number of timers of the scheduler the browser holds
  lastArm,            \* what the last call of scheduleRefresh read and did
  now,                \* Date.now(), in ms
  navigated,          \* where window.location was sent ("none" while on the page)
  authRequest,        \* the authorization request window.location was sent to
  socialCalls,        \* LoginPage: requests to the identity bridge in flight
  bridgeLog,          \* requests sent to the identity bridge, in order
  socialError,        \* LoginPage state: socialError
  lastBridge,         \* the answer of the identity bridge consumed last
  exchangeResult,     \* how the promise of exchangeCodeForTokens settled
  pageMounted,        \* AuthCallbackPage is mounted (the route is shown)
  storedUser,         \* sessionStorage: synaptagrid_marketing_user
  storedUserFetchedAt, \* sessionStorage: synaptagrid_marketing_user_fetched_at_ms
  topNavCalls,        \* TopNav: the current-user requests in flight (their tokens)
  authRedirects,      \* calls of startAuthRedirect waiting for sha256
  hostname,           \* window.location.hostname, as its labels
  protocol,           \* window.location.protocol
  envCookieDomain,    \* process.env.REACT_APP_ACCESS_TOKEN_COOKIE_DOMAIN
  envAccessCookieName,  \* process.env.REACT_APP_ACCESS_TOKEN_COOKIE_NAME
  envRefreshCookieName, \* process.env.REACT_APP_REFRESH_TOKEN_COOKIE_NAME
  jar,                \* the browser's cookie store, in creation order
  lastOp,             \* the operation of auth/cookie.ts that ran last
  serverOrg,          \* organization the account service binds the user to
  hintOrg,            \* AuthCallbackPage state: accessHint.organization?.guid
  portalUrl,          \* AuthCallbackPage state: portalUrl
  portalCalls,        \* portal look-ups in flight (the guid they ask for)
  portalLog,          \* number of portal look-ups started
  portalDeps          \* dependencies the portal effect ran with last

vars == <<build, url, envAuthnUrl, envControlPlaneUrl, pkce, cookies, config, loading, error,
          cachedBootstrapConfig, loads, loadsStarted, latestLoadResult,
          effectQueue, status,
          message, accessHint, userEmail, hasExchangedRef, lastBranch, calls,
          tokenReqLog, exchangeCalls, timer, refreshes, lastRefresh, mounted,
          pendingTimers, lastArm, now, navigated, authRequest, socialCalls,
          bridgeLog, socialError, lastBridge, exchangeResult, pageMounted,
          storedUser, storedUserFetchedAt, topNavCalls, authRedirects,
          hostname, protocol, envCookieDomain, envAccessCookieName,
          envRefreshCookieName, jar, lastOp,
          serverOrg, hintOrg, portalUrl, portalCalls, portalLog, portalDeps>>

providerVars == <<config, loading, error, cachedBootstrapConfig, loads, loadsStarted,
                  latestLoadResult>>
pageVars == <<status, message, accessHint, userEmail, hasExchangedRef, lastBranch>>
schedVars == <<timer, refreshes, lastRefresh, mounted, pendingTimers, lastArm>>
inputVars == <<build, url, envAuthnUrl, envControlPlaneUrl>>
loginVars == <<socialCalls, bridgeLog, socialError, lastBridge>>
storeVars == <<hostname, protocol, envCookieDomain, envAccessCookieName,
              envRefreshCookieName, jar, lastOp>>
portalVars == <<portalUrl, portalCalls, portalLog, portalDeps>>
landingVars == <<serverOrg, hintOrg, portalVars>>
pendingVars == <<storedUserFetchedAt, topNavCalls, authRedirects>>

\* What the callback page, the provider and the scheduler never touch.
auxVars == <<loginVars, storeVars, landingVars, exchangeResult, pageMounted,
            storedUser>>

NoTimer == [pending |-> FALSE, fireAt |-> 0, refreshToken |-> NULL]

\* ------------------------------------------------------------ OIDC helpers
\* getBootstrapConfig(): the synchronous accessor.
getBootstrapConfig == cachedBootstrapConfig

\* getOidcIssuer(), as a path: issuer, else keycloak_url + realm, else env.
getOidcIssuer(cfg) ==
  IF cfg # NULL /\ ConfigData[cfg].issuer # NULL
    THEN <<ConfigData[cfg].issuer>>
    ELSE IF cfg # NULL /\ ConfigData[cfg].keycloak_url # NULL
      THEN <<ConfigData[cfg].keycloak_url, "/realms/synaptagrid">>
      ELSE EnvIssuer

getOidcClientId(cfg) ==
  IF cfg # NULL /\ ConfigData[cfg].client_id # NULL
    THEN ConfigData[cfg].client_id
    ELSE DefaultClientId

TokenEndpoint(cfg) == Append(getOidcIssuer(cfg), "/protocol/openid-connect/token")


\* Variant: the guard forgets to compare the callback's state.
AuthStateValidNoCompare(expectedState, state, verifier) ==
  ~(expectedState = NULL \/ verifier = NULL)

\* exchangeCodeForTokens: the guard on the stored PKCE session.
AuthStateValid(expectedState, state, verifier) ==
  ~(expectedState = NULL \/ expectedState # state \/ verifier = NULL)

\* Variant: only the state is written to session storage.
StoredPkceStateOnly(state, verifier) == [state |-> state, verifier |-> NULL]

\* startAuthRedirect: what it writes to session storage.
StoredPkce(state, verifier) == [state |-> state, verifier |-> verifier]

\* getRedirectUri(), for bundles without oauth_callback_url / redirect_uri.
getRedirectUri(cfg) ==
  IF cfg # NULL /\ ConfigData[cfg].authn_url # NULL
    THEN <<ConfigData[cfg].authn_url, "/v1/authn/oauth/callback">>
    ELSE EnvRedirectUri

\* sha256(value): the digest when crypto.subtle is there, else the value.
sha256(value, subtle) ==
  IF subtle THEN [challenge |-> <<"SHA-256", value>>, method |-> "S256"]
  ELSE [challenge |-> <<value>>, method |-> "plain"]

buildAuthParams(mode, state, codeChallenge, cfg) ==
  [client_id |-> getOidcClientId(cfg),
   redirect_uri |-> getRedirectUri(cfg),
   response_type |-> "code",
   code_challenge |-> codeChallenge,
   code_challenge_method |-> "S256",
   state |-> state,
   prompt |-> IF mode = "register" THEN "login" ELSE NULL]

AuthEndpoint(cfg) == Append(getOidcIssuer(cfg), "/protocol/openid-connect/auth")

\* Variant: the method of the parameters is not replaced by the digest's.
AuthRequestFixedMethod(mode, state, verifier, subtle, cfg) ==
  [endpoint |-> AuthEndpoint(cfg)]
    @@ buildAuthParams(mode, state, sha256(verifier, subtle).challenge, cfg)

\* startAuthRedirect: the URL it assigns to window.location.
AuthRequest(mode, state, verifier, subtle, cfg) ==
  [endpoint |-> AuthEndpoint(cfg)]
    @@ [buildAuthParams(mode, state, sha256(verifier, subtle).challenge, cfg)
          EXCEPT !.code_challenge_method = sha256(verifier, subtle).method]

NoAuthRequest == [endpoint |-> <<>>]

\* What session storage can hold when the callback page loads: nothing, the
\* pair written by startAuthRedirect, or a pair that lost its verifier.
PkceStores ==
  { [state |-> NULL, verifier |-> NULL],
    StoredPkce("s1", "v1"),
    [state |-> "s1", verifier |-> NULL] }

\* ------------------------------------------------------------- token store
\* The two token cookies of a page on one host, each under a name of its
\* own: the page load is followed for a build whose environment names no
\* cookie, so the names are the two written in the code.  The names the
\* environment can give, characters, hosts and domains are followed in the
\* token store section below.
setAccessTokenCookie(c, value, maxAgeSeconds) ==
  IF maxAgeSeconds <= 0
    THEN [c EXCEPT !.access = NULL, !.accessMaxAge = NoNum]
    ELSE [c EXCEPT !.access = value, !.accessMaxAge = maxAgeSeconds]

setRefreshTokenCookie(c, value, maxAgeSeconds) ==
  IF maxAgeSeconds <= 0
    THEN [c EXCEPT !.refresh = NULL, !.refreshMaxAge = NoNum]
    ELSE [c EXCEPT !.refresh = value, !.refreshMaxAge = maxAgeSeconds]

getAccessTokenCookie(c) == c.access
getRefreshTokenCookie(c) == c.refresh

clearAccessTokenCookie(c) == [c EXCEPT !.access = NULL, !.accessMaxAge = NoNum]
clearRefreshTokenCookie(c) == [c EXCEPT !.refresh = NULL, !.refreshMaxAge = NoNum]

\* ------------------------------------------------------ callback orchestrator
\* parseFragmentTokens: null without access_token; expires_in defaults to 3600.
parseFragmentTokens(u) ==
  [ok |-> u.h_access # NULL,
   access_token |-> u.h_access,
   expires_in |-> IF u.h_expires = NoNum THEN DefaultExpiresIn ELSE u.h_expires,
   refresh_token |-> u.h_refresh,
   id_token |-> u.h_id]

\* Variant: the effect does not wait for the tenant configuration.
ClassifyNoWait(latch, u, cfg) ==
  IF latch THEN "latched"
  ELSE IF u.err THEN "error"
  ELSE IF parseFragmentTokens(u).ok THEN "fragment"
  ELSE IF u.code = NULL \/ u.state = NULL THEN "missing"
  ELSE "exchange"

\* The branch one evaluation of the AuthCallbackPage effect takes.
Classify(latch, u, cfg) ==
  IF latch THEN "latched"
  ELSE IF u.err THEN "error"
  ELSE IF parseFragmentTokens(u).ok THEN "fragment"
  ELSE IF cfg = NULL THEN "waiting"
  ELSE IF u.code = NULL \/ u.state = NULL THEN "missing"
  ELSE "exchange"

\* Variant: the latch is not set before the exchange.
LatchAfterNoExchange(branch) == branch \in {"latched", "error", "fragment"}

\* Variant: the latch is not set in the fragment branch.
LatchAfterNoFragment(branch) == branch \in {"latched", "error", "exchange"}

\* The branches that set hasExchangedRef.current = true.
LatchAfter(branch) == branch \in {"latched", "error", "fragment", "exchange"}

\* decodeURIComponent(errorDescription.replace(/\+/g, ' ')) in the error
\* branch: every '+' becomes a blank and every escape its character; on a
\* '%' that starts no escape decodeURIComponent throws URIError.
DecodeErrorDescription(d) ==
  CASE d = "Try+again%21" -> [ok |-> TRUE, value |-> "Try again!"]
    [] d = "100% failed" -> [ok |-> FALSE, value |-> NULL]
    [] OTHER -> [ok |-> TRUE, value |-> d]

\* The argument of setMessage in the error branch.
ErrorMessage(d) ==
  IF d # NULL THEN DecodeErrorDescription(d).value
  ELSE "Authentication failed. Please try again."

\* The error branch throws while it computes the argument of setMessage.
ErrorBranchThrows(d) == d # NULL /\ ~DecodeErrorDescription(d).ok

\* The effect of the earlier AuthCallbackPage: no fragment shape, no tenant
\* configuration, and the latch is set before the exchange only.
ClassifyLegacy(latch, u) ==
  IF latch THEN "latched"
  ELSE IF u.err THEN "error"
  ELSE IF u.code = NULL \/ u.state = NULL THEN "missing"
  ELSE "exchange"

LatchAfterLegacy(branch) == branch \in {"latched", "exchange"}

\* bootstrapConfig?.services?.authn_url || REACT_APP_AUTHN_BASE_URL || ''
AuthnBaseUrl(cfg, env) ==
  IF cfg # NULL /\ ConfigData[cfg].authn_url # NULL THEN ConfigData[cfg].authn_url
  ELSE env

\* Which lookup the fragment branch starts.
FragmentLookup(tokens, authnBaseUrl) ==
  IF tokens.id_token # NULL /\ authnBaseUrl # NULL THEN "acctA"
  ELSE IF authnBaseUrl # NULL THEN "me"
  ELSE "none"

\* Variant: a failed current-user call fails the sign-in.
CurrentUserStatusFails(ok) == IF ok THEN "ready" ELSE "error"

\* Status set by the handlers of the lookups, by outcome of the call.
AccountResolutionStatus(ok) == IF ok THEN "ready" ELSE "error"
CurrentUserStatus(ok) == "ready"

HintMessage(hint) ==
  IF hint \in {"personal_org_created", "ok"}
    THEN "Success! You can go to the Portal when ready."
    ELSE "Additional action required."

\* The texts of the earlier AuthCallbackPage.
HintMessageLegacy(hint) ==
  IF hint \in {"personal_org_created", "ok"}
    THEN "Authentication complete. Redirecting to the app..."
    ELSE "Additional action required."

InitialMessage(b) ==
  IF b = "legacy" THEN "Completing secure sign-in..." ELSE "Completing sign-in..."

\* Message of the catch block at the end of the code+state chain.
ChainFailureMessage(b) ==
  IF b = "legacy" THEN "Unable to complete login. Please try again."
  ELSE "Unable to complete sign-in. Please try again."

Call(kind, sent, tok) == [kind |-> kind, sent |-> sent, tok |-> tok]

RemoveAt(s, i) == SubSeq(s, 1, i - 1) \o SubSeq(s, i + 1, Len(s))

TokenRequest(grant, cfg, code, seen) ==
  [grant |-> grant, endpoint |-> TokenEndpoint(cfg),
   client_id |-> getOidcClientId(cfg), code |-> code, seen |-> seen]

\* -------------------------------------------------------- refresh scheduler
\* Variant: the delay is not floored at 0.
RefreshInNoFloor(exp, n) ==
  IF exp = NaN THEN NaN ELSE ((exp * 1000) - n) - LeadTimeMs

\* refreshIn: Math.max(0, payload.exp * 1000 - Date.now() - 60000), which
\* is NaN when payload.exp is no number.
RefreshIn(exp, n) ==
  IF exp = NaN THEN NaN ELSE Max(0, ((exp * 1000) - n) - LeadTimeMs)

\* setTimeout(callback, delay): a delay that is no number counts as 0.
TimeoutDelay(d) == IF d = NaN THEN 0 ELSE d

\* Variant: only the access token is required to arm the timer.
scheduleRefreshAccessOnly(c, t, n) ==
  IF getAccessTokenCookie(c) = NULL
    THEN [t EXCEPT !.pending = FALSE]
  ELSE IF TokenExp[getAccessTokenCookie(c)] = NoNum
    THEN [t EXCEPT !.pending = FALSE]
  ELSE [pending |-> TRUE,
        fireAt |-> n + TimeoutDelay(RefreshIn(TokenExp[getAccessTokenCookie(c)], n)),
        refreshToken |-> getRefreshTokenCookie(c)]

\* Variant: a token whose expiry does not decode is taken as already due.
scheduleRefreshUndecodableDue(c, t, n) ==
  IF getAccessTokenCookie(c) = NULL \/ getRefreshTokenCookie(c) = NULL
    THEN [t EXCEPT !.pending = FALSE]
  ELSE [pending |-> TRUE,
        fireAt |-> n + (IF TokenExp[getAccessTokenCookie(c)] = NoNum THEN 0
                        ELSE TimeoutDelay(
                               RefreshIn(TokenExp[getAccessTokenCookie(c)], n))),
        refreshToken |-> getRefreshTokenCookie(c)]

\* scheduleRefresh: clears the armed timer, then arms one when both tokens
\* are stored and decoding the access token's payload does not throw.
scheduleRefresh(c, t, n) ==
  IF getAccessTokenCookie(c) = NULL \/ getRefreshTokenCookie(c) = NULL
    THEN [t EXCEPT !.pending = FALSE]
  ELSE IF TokenExp[getAccessTokenCookie(c)] = NoNum
    THEN [t EXCEPT !.pending = FALSE]
  ELSE [pending |-> TRUE,
        fireAt |-> n + TimeoutDelay(RefreshIn(TokenExp[getAccessTokenCookie(c)], n)),
        refreshToken |-> getRefreshTokenCookie(c)]

\* clearTimeout(refreshTimerRef.current): the timer the ref names leaves the
\* browser when it is still pending.
clearTimeout(n, t) == IF t.pending THEN n - 1 ELSE n

\* Timers the browser holds after one call of scheduleRefresh.
PendingAfterSchedule(n, c, t, at) ==
  clearTimeout(n, t) + (IF scheduleRefresh(c, t, at).pending THEN 1 ELSE 0)

\* Variant: the callback arms a follow-up timer of its own when it starts,
\* without recording its handle.
PendingAfterFireFollowUp(n) == n

\* setTimeout is one-shot: the timer that fired is no longer pending.
PendingAfterFire(n) == n - 1

\* What one call of scheduleRefresh read and did.
ArmRecord(c, t, at) ==
  IF getAccessTokenCookie(c) = NULL \/ getRefreshTokenCookie(c) = NULL
    THEN [result |-> "noTokens", exp |-> NoNum, at |-> at, delay |-> NoNum]
  ELSE IF TokenExp[getAccessTokenCookie(c)] = NoNum
    THEN [result |-> "undecodable", exp |-> NoNum, at |-> at, delay |-> NoNum]
  ELSE [result |-> "armed", exp |-> TokenExp[getAccessTokenCookie(c)], at |-> at,
        delay |-> RefreshIn(TokenExp[getAccessTokenCookie(c)], at)]

NoArm == [result |-> "none", exp |-> NoNum, at |-> 0, delay |-> NoNum]

\* Variant: the catch block arms the timer again from the tokens it had.
RefreshFailureTimerRetry(c, t, n) == scheduleRefresh(c, t, n)

\* The catch block of the timer callback.
RefreshFailureCookies(c) == clearRefreshTokenCookie(clearAccessTokenCookie(c))
RefreshFailureTimer(c, t, n) == t

\* ----------------------------------------------------------------- Init
\* The passive effects of the first commit.  Effects of children run before
\* those of their parents: TopNav, which AuthCallbackPage renders without
\* props, then the two effects of the page, the provider and App.  The
\* earlier page has no TopNav and one effect.
MountEffects(b) ==
  IF b = "legacy" THEN <<"callback">>
  ELSE <<"topNav", "callback", "portal", "load", "cache", "tokenRefresh">>

\* The effects a commit queues when the page set its hint: the second effect
\* of AuthCallbackPage depends on the organization and the action of the
\* hint.  React commits nothing for a page that was torn down, alone or
\* with App.
PortalEffects(b, pm, oldOrg, oldHint, newOrg, newHint) ==
  IF b # "legacy" /\ pm /\ <<oldOrg, oldHint>> # <<newOrg, newHint>>
    THEN <<"portal">>
    ELSE <<>>

\* The page load of a user whose account resolution names organization org.
InitFor(org) ==
  /\ build \in Builds
  /\ url \in CallbackUrls
  /\ envAuthnUrl \in (IF build # "legacy" /\ parseFragmentTokens(url).ok
                        THEN EnvAuthnUrls ELSE {"authnEnv"})
  /\ envControlPlaneUrl \in EnvControlPlaneUrls(build)
  /\ pkce \in (IF ClassifyLegacy(FALSE, url) = "exchange"
                 THEN PkceStores ELSE {StoredPkce("s1", "v1")})
  /\ cookies \in InitialCookiesOf(build, url)
  /\ config = NULL
  /\ loading = TRUE
  /\ error = NULL
  /\ cachedBootstrapConfig = NULL
  /\ loads = {}
  /\ loadsStarted = 0
  /\ latestLoadResult = "none"
  /\ effectQueue = MountEffects(build)
  /\ status = "loading"
  /\ message = InitialMessage(build)
  /\ accessHint = NULL
  /\ userEmail = NULL
  /\ hasExchangedRef = FALSE
  /\ lastBranch = "none"
  /\ calls = <<>>
  /\ tokenReqLog = <<>>
  /\ exchangeCalls = 0
  /\ timer = NoTimer
  /\ refreshes = 0
  /\ lastRefresh = "none"
  /\ mounted = TRUE
  /\ pendingTimers = 0
  /\ lastArm = NoArm
  /\ now = 0
  /\ navigated = "none"
  /\ authRequest = NoAuthRequest
  /\ socialCalls = <<>>
  /\ bridgeLog = <<>>
  /\ socialError = NULL
  /\ lastBridge = NoBridgeAnswer
  /\ exchangeResult = "none"
  /\ pageMounted = TRUE
  /\ storedUser = NoStoredUser
  /\ storedUserFetchedAt = NoNum
  /\ topNavCalls = <<>>
  /\ authRedirects = <<>>
  /\ hostname = <<"localhost">>
  /\ protocol = "http:"
  /\ envCookieDomain = NoDomain
  /\ envAccessCookieName = NoName
  /\ envRefreshCookieName = NoName
  /\ jar = <<>>
  /\ lastOp = NoOp
  /\ serverOrg = org
  /\ hintOrg = NULL
  /\ portalUrl = NULL
  /\ portalCalls = <<>>
  /\ portalLog = 0
  /\ portalDeps = NoDeps

Init == InitFor("org1")


\* window.location was not assigned yet.  An assignment starts a navigation
\* and returns: the document stays until the answer of the new one arrives,
\* and until then the callbacks of the page (effects, answers of requests,
\* timers, waiting continuations) run as before; a later assignment replaces
\* the navigation under way.  The unload is no step of the model: a page
\* load that ends is a behaviour that goes no further.  The model follows
\* what the user does (clicks, leaving the page, a reload of the tenant
\* configuration, the unmount of App) up to the first assignment.
OnPage == navigated = "none"

\* ------------------------------------------------------ BootstrapProvider
\* The first BootstrapContext throws before its fetch when the environment
\* names no control plane.
RequiresControlPlaneUrl(b, env) == b = "v1" /\ env = NULL

\* A state setter called with value new, and the effects of the commit that
\* follows: React drops the call when the component is no longer mounted,
\* and commits nothing.
SetState(m, old, new) == IF m THEN new ELSE old

\* An effect of the commit under way has thrown: React unmounts the root
\* once the effects of the commit have run.
UncaughtErrorPending(q) == \E i \in 1..Len(q) : q[i] = "uncaughtError"

\* The state updates queued now will be rendered: the root is mounted and
\* is not about to be unmounted.
WillRender(m, q) == m /\ ~UncaughtErrorPending(q)

\* loadBootstrapConfig up to its fetch: setLoading(true), setError(null),
\* then the request.  Where the function throws before the fetch it runs to
\* its end in the same call: the catch block sets the error and a null
\* config, the finally block clears loading, and no request is made.  The
\* function runs whether or not its setters still have an effect.
StartLoad ==
  /\ loadsStarted' = loadsStarted + 1
  /\ IF RequiresControlPlaneUrl(build, envControlPlaneUrl)
       THEN /\ loads' = loads
            /\ latestLoadResult' = "failed"
            /\ loading' = SetState(WillRender(mounted, effectQueue), loading, FALSE)
            /\ error' = SetState(WillRender(mounted, effectQueue), error,
                                 "REACT_APP_CONTROL_PLANE_BASE_URL is required")
            /\ config' = SetState(WillRender(mounted, effectQueue), config, NULL)
       ELSE /\ loads' = loads \cup {loadsStarted + 1}
            /\ latestLoadResult' = "pending"
            /\ loading' = SetState(WillRender(mounted, effectQueue), loading, TRUE)
            /\ error' = SetState(WillRender(mounted, effectQueue), error, NULL)
            /\ config' = config
  /\ UNCHANGED cachedBootstrapConfig

\* The effects a commit queues when the provider's config state changed.
ConfigEffects(old, new) ==
  IF old = new /\ new = NULL THEN <<>> ELSE <<"callback", "cache">>

\* What the catch block of loadBootstrapConfig passes to setConfig.
FailureConfig(b, env) ==
  IF b # "v2" THEN NULL
  ELSE IF env # NULL THEN "fallbackConfig"
  ELSE "fallbackDefault"

\* The outcome of the resolution started last, once resolution id has ended
\* with the given outcome.
LatestAfter(latest, id, started, outcome) ==
  IF id = started THEN outcome ELSE latest

\* useEffect(() => { loadBootstrapConfig(); }, [])
EffectLoad ==
  /\ effectQueue # <<>> /\ Head(effectQueue) = "load"
  /\ effectQueue' = Tail(effectQueue)
  /\ StartLoad
  /\ UNCHANGED <<inputVars, pkce, cookies, pageVars, calls, tokenReqLog,
                 exchangeCalls, schedVars, now, navigated, authRequest>>
  /\ UNCHANGED auxVars
  /\ UNCHANGED pendingVars

\* Variant: the cache is filled once and kept.
CacheAfterFirstOnly(cfg, cached) ==
  IF cfg # NULL /\ cached = NULL THEN cfg ELSE cached

\* if (config) { cachedBootstrapConfig = config; }
CacheAfter(cfg, cached) == IF cfg # NULL THEN cfg ELSE cached

\* useEffect(() => { if (config) cachedBootstrapConfig = config; }, [config])
EffectCache ==
  /\ effectQueue # <<>> /\ Head(effectQueue) = "cache"
  /\ effectQueue' = Tail(effectQueue)
  /\ cachedBootstrapConfig' = CacheAfter(config, cachedBootstrapConfig)
  /\ UNCHANGED <<inputVars, pkce, cookies, config, loading, error, loads,
                 loadsStarted, latestLoadResult, pageVars, calls, tokenReqLog,
                 exchangeCalls,
                 schedVars, now, navigated, authRequest>>
  /\ UNCHANGED auxVars
  /\ UNCHANGED pendingVars

\* reload() of the context value.
Reload ==
  /\ OnPage
  /\ mounted
  /\ pageMounted
  /\ build # "legacy"
  /\ effectQueue = <<>>
  /\ loadsStarted >= 1
  /\ loadsStarted < MaxLoads
  /\ StartLoad
  /\ UNCHANGED <<inputVars, pkce, cookies, effectQueue, pageVars, calls,
                 tokenReqLog, exchangeCalls, schedVars, now, navigated, authRequest>>
  /\ UNCHANGED auxVars
  /\ UNCHANGED pendingVars

\* The tenant resolution endpoint answered with a bundle.
LoadSucceeds ==
  /\ effectQueue = <<>>
  /\ \E id \in loads, cfg \in ServerConfigs :
       /\ loads' = loads \ {id}
       /\ config' = SetState(mounted, config, cfg)
       /\ loading' = SetState(mounted, loading, FALSE)
       /\ effectQueue' = SetState(mounted, <<>>, ConfigEffects(config, cfg))
       /\ latestLoadResult' = LatestAfter(latestLoadResult, id, loadsStarted, cfg)
  /\ UNCHANGED <<inputVars, pkce, cookies, error, cachedBootstrapConfig,
                 loadsStarted, pageVars, calls, tokenReqLog, exchangeCalls,
                 schedVars, now, navigated, authRequest>>
  /\ UNCHANGED auxVars
  /\ UNCHANGED pendingVars

\* The tenant resolution endpoint was unreachable or answered non-success.
LoadFails ==
  /\ effectQueue = <<>>
  /\ \E id \in loads :
       /\ loads' = loads \ {id}
       /\ error' = SetState(mounted, error, "Failed to load configuration.")
       /\ config' = SetState(mounted, config, FailureConfig(build, envAuthnUrl))
       /\ loading' = SetState(mounted, loading, FALSE)
       /\ effectQueue' = SetState(mounted, <<>>,
                            ConfigEffects(config, FailureConfig(build, envAuthnUrl)))
       /\ latestLoadResult' = LatestAfter(latestLoadResult, id, loadsStarted, "failed")
  /\ UNCHANGED <<inputVars, pkce, cookies, cachedBootstrapConfig,
                 loadsStarted, pageVars, calls, tokenReqLog, exchangeCalls,
                 schedVars, now, navigated, authRequest>>
  /\ UNCHANGED auxVars
  /\ UNCHANGED pendingVars


\* ------------------------------------------------------- AuthCallbackPage
\* exchangeCodeForTokens up to its fetch: the state check, then the POST to
\* the token endpoint read through the synchronous accessor.
StartExchange(seen) ==
  /\ exchangeCalls' = exchangeCalls + 1
  /\ IF AuthStateValid(pkce.state, url.state, pkce.verifier)
       THEN /\ tokenReqLog' = Append(tokenReqLog,
                 TokenRequest("authorization_code", getBootstrapConfig, url.code, seen))
            /\ calls' = Append(calls, Call("exchange", TRUE, NULL))
       ELSE /\ tokenReqLog' = tokenReqLog
            /\ calls' = Append(calls, Call("exchange", FALSE, NULL))

\* Variant: the page makes up no hint of its own.
LocalAccessHintUnset == NULL

\* { action: 'ok', reason: null }: the hint the page sets where no
\* account-resolution answer supplies one.
LocalAccessHint == "ok"

\* Case A of the effect: tokens in the fragment.
FragmentBranch ==
  LET tokens == parseFragmentTokens(url)
      authnBaseUrl == AuthnBaseUrl(config, envAuthnUrl)
      c1 == setAccessTokenCookie(cookies, tokens.access_token, tokens.expires_in)
      c2 == IF tokens.refresh_token # NULL
              THEN setRefreshTokenCookie(c1, tokens.refresh_token, FragmentRefreshMaxAge)
              ELSE c1
      lookup == FragmentLookup(tokens, authnBaseUrl)
  IN /\ cookies' = c2
     /\ IF lookup = "none"
          THEN /\ accessHint' = LocalAccessHint
               /\ status' = "ready"
               /\ message' = "Success! You can go to the Portal when ready."
               /\ calls' = calls
          ELSE /\ calls' = Append(calls, Call(lookup, TRUE, NULL))
               /\ UNCHANGED <<accessHint, status, message>>
     /\ UNCHANGED <<userEmail, tokenReqLog, exchangeCalls>>

\* What the success branches write under MARKETING_USER_KEY: display_name,
\* name and the local part of the address, in this order, name the user.
StoredUserOf(email) == [name |-> "user", email |-> email]

\* getStoredUser / getStoredUserFetchedAtMs: TopNav takes the stored user
\* while it is fresh.
StoredUserIsFresh(u, at, n) ==
  u # NoStoredUser /\ at # NoNum /\ n - at < UserFreshMs

\* The request the effect of TopNav starts: with an access token in the
\* store and no fresh stored user it calls fetchCurrentUser, which sends the
\* token of the store to the current-user endpoint.
TopNavCallAfter(c, u, at, n) ==
  IF getAccessTokenCookie(c) = NULL \/ StoredUserIsFresh(u, at, n) THEN <<>>
  ELSE <<getAccessTokenCookie(c)>>

\* typeof userProp !== 'undefined' || typeof authCheckedProp !== 'undefined':
\* LandingPage alone passes user and authChecked to its TopNav, and the
\* effect of a child runs right before the effects of its parent.
hasExternalAuthState(q) == Len(q) >= 2 /\ q[2] = "landing"

\* The effect of TopNav, which runs once for each page that is mounted.  The
\* callback page and the pages its links lead to render TopNav without
\* props, except LandingPage: there the effect returns at once.
EffectTopNav ==
  /\ build # "legacy"
  /\ effectQueue # <<>> /\ Head(effectQueue) = "topNav"
  /\ effectQueue' = Tail(effectQueue)
  /\ topNavCalls' = topNavCalls \o
       (IF hasExternalAuthState(effectQueue) THEN <<>>
        ELSE TopNavCallAfter(cookies, storedUser, storedUserFetchedAt, now))
  /\ UNCHANGED <<inputVars, pkce, cookies, providerVars, pageVars, calls,
                 tokenReqLog, exchangeCalls, schedVars, now, navigated,
                 authRequest>>
  /\ UNCHANGED auxVars
  /\ UNCHANGED <<storedUserFetchedAt, authRedirects>>

\* The first effect of LandingPage calls fetchCurrentUser without a
\* condition: the request carries the token of the store, or no
\* Authorization header when the store has none.
EffectLanding ==
  /\ build # "legacy"
  /\ effectQueue # <<>> /\ Head(effectQueue) = "landing"
  /\ effectQueue' = Tail(effectQueue)
  /\ topNavCalls' = Append(topNavCalls, getAccessTokenCookie(cookies))
  /\ UNCHANGED <<inputVars, pkce, cookies, providerVars, pageVars, calls,
                 tokenReqLog, exchangeCalls, schedVars, now, navigated,
                 authRequest>>
  /\ UNCHANGED auxVars
  /\ UNCHANGED <<storedUserFetchedAt, authRedirects>>

\* What fetchCurrentUser leaves in sessionStorage: the user of an answer that
\* carries one, with the time of the write; any other answer, and a failed
\* request, write nothing.
StoredUserAfterFetch(u, ok) == IF ok THEN StoredUserOf("user@example.com") ELSE u
FetchedAtAfterFetch(at, ok, n) == IF ok THEN n ELSE at

\* fetchCurrentUser settles.  The write to sessionStorage is inside the
\* function: the `cancelled` flag of the effect guards the state of TopNav
\* only, so the write also happens after TopNav was torn down.
FetchCurrentUserSettles ==
  /\ effectQueue = <<>>
  /\ \E i \in 1..Len(topNavCalls), ok \in BOOLEAN :
       /\ topNavCalls' = RemoveAt(topNavCalls, i)
       /\ storedUser' = StoredUserAfterFetch(storedUser, ok)
       /\ storedUserFetchedAt' = FetchedAtAfterFetch(storedUserFetchedAt, ok, now)
  /\ UNCHANGED <<inputVars, pkce, cookies, providerVars, effectQueue, pageVars,
                 calls, tokenReqLog, exchangeCalls, schedVars, now, navigated,
                 authRequest>>
  /\ UNCHANGED <<loginVars, storeVars, landingVars, exchangeResult, pageMounted,
                 authRedirects>>

\* What React does with an error thrown by the effect, which no error
\* boundary catches: it runs the other effects of the commit and then
\* unmounts the root.  The state updates the effect queued before it threw
\* (setStatus('error')) are never rendered.
UncaughtError(branch, u) ==
  IF branch = "error" /\ ErrorBranchThrows(u.error_description)
    THEN <<"uncaughtError">>
    ELSE <<>>

\* The effect of AuthCallbackPage, one evaluation.
EffectCallback ==
  /\ build # "legacy"
  /\ effectQueue # <<>> /\ Head(effectQueue) = "callback"
  /\ LET branch == Classify(hasExchangedRef, url, config)
     IN /\ hasExchangedRef' = LatchAfter(branch)
        /\ lastBranch' = branch
        /\ CASE branch = "latched" ->
                  UNCHANGED <<status, message, accessHint, userEmail, cookies,
                              calls, tokenReqLog, exchangeCalls>>
             [] branch = "error" ->
                  /\ IF ErrorBranchThrows(url.error_description)
                       THEN UNCHANGED <<status, message>>
                       ELSE /\ status' = "error"
                            /\ message' = ErrorMessage(url.error_description)
                  /\ UNCHANGED <<accessHint, userEmail, cookies, calls,
                                 tokenReqLog, exchangeCalls>>
             [] branch = "fragment" -> FragmentBranch
             [] branch = "waiting" ->
                  /\ message' = "Loading configuration..."
                  /\ UNCHANGED <<status, accessHint, userEmail, cookies,
                                 calls, tokenReqLog, exchangeCalls>>
             [] branch = "missing" ->
                  /\ status' = "error"
                  /\ message' = "Missing authentication data."
                  /\ UNCHANGED <<accessHint, userEmail, cookies, calls,
                                 tokenReqLog, exchangeCalls>>
             [] branch = "exchange" ->
                  /\ StartExchange(config)
                  /\ UNCHANGED <<status, message, accessHint, userEmail,
                                 cookies>>
  /\ effectQueue' = Tail(effectQueue) \o
       PortalEffects(build, mounted /\ pageMounted, hintOrg, accessHint,
                     hintOrg, accessHint') \o
       UncaughtError(Classify(hasExchangedRef, url, config), url)
  /\ UNCHANGED <<inputVars, pkce, providerVars, schedVars, now, navigated, authRequest>>
  /\ UNCHANGED auxVars
  /\ UNCHANGED pendingVars

\* React unmounts the root after an effect threw: App, the provider and the
\* page are gone, and the cleanup of useTokenRefresh clears the timer the
\* ref names.  Requests in flight keep their continuations.
EffectUncaughtError ==
  /\ effectQueue # <<>> /\ Head(effectQueue) = "uncaughtError"
  /\ effectQueue' = Tail(effectQueue)
  /\ mounted' = FALSE
  /\ pageMounted' = FALSE
  /\ timer' = [timer EXCEPT !.pending = FALSE]
  /\ pendingTimers' = clearTimeout(pendingTimers, timer)
  /\ UNCHANGED <<inputVars, pkce, cookies, providerVars, pageVars, calls,
                 tokenReqLog, exchangeCalls, refreshes, lastRefresh, lastArm,
                 now, navigated, authRequest>>
  /\ UNCHANGED <<loginVars, storeVars, landingVars, exchangeResult, storedUser>>
  /\ UNCHANGED pendingVars

\* The effect of the earlier AuthCallbackPage, one evaluation.
EffectCallbackLegacy ==
  /\ build = "legacy"
  /\ effectQueue # <<>> /\ Head(effectQueue) = "callback"
  /\ effectQueue' = Tail(effectQueue)
  /\ LET branch == ClassifyLegacy(hasExchangedRef, url)
     IN /\ hasExchangedRef' = LatchAfterLegacy(branch)
        /\ lastBranch' = branch
        /\ CASE branch = "latched" ->
                  UNCHANGED <<status, message, calls, tokenReqLog, exchangeCalls>>
             [] branch = "error" ->
                  /\ status' = "error"
                  /\ message' = "Authentication failed. Please try again."
                  /\ UNCHANGED <<calls, tokenReqLog, exchangeCalls>>
             [] branch = "missing" ->
                  /\ status' = "error"
                  /\ message' = "Missing authentication response data."
                  /\ UNCHANGED <<calls, tokenReqLog, exchangeCalls>>
             [] branch = "exchange" ->
                  /\ StartExchange(NULL)
                  /\ UNCHANGED <<status, message>>
  /\ UNCHANGED <<inputVars, pkce, cookies, providerVars, accessHint,
                 userEmail, schedVars, now, navigated, authRequest>>
  /\ UNCHANGED auxVars
  /\ UNCHANGED pendingVars

\* React evaluates the effect again although the URL and the tenant
\* configuration are the same (a memoised dependency is recomputed).
Reevaluate ==
  /\ mounted
  /\ pageMounted
  /\ effectQueue = <<>>
  /\ Len(calls) < MaxCalls
  /\ exchangeCalls < MaxCalls
  /\ effectQueue' = <<"callback">>
  /\ UNCHANGED <<inputVars, pkce, cookies, providerVars, pageVars, calls,
                 tokenReqLog, exchangeCalls, schedVars, now, navigated, authRequest>>
  /\ UNCHANGED auxVars
  /\ UNCHANGED pendingVars

\* Variant: a failed exchange is sent again.
CallsAfterExchangeFailureRetry(cs, i) ==
  Append(RemoveAt(cs, i), Call("exchange", TRUE, NULL))

\* The promise of exchangeCodeForTokens rejected: nothing of it stays in
\* flight.
CallsAfterExchangeFailure(cs, i) == RemoveAt(cs, i)

\* How a request exchangeCodeForTokens sent can fail: the token endpoint
\* answers with a non-success status, fetch itself rejects (network failure,
\* CORS), or the body of a success answer is not JSON.
ExchangeFaults == {"status", "network", "body"}

\* What the promise of exchangeCodeForTokens rejects with.  The function
\* throws its own Errors on the state check and on a non-success status; it
\* has no try/catch around `await fetch` and `await response.json()`, so
\* their rejections (a TypeError, a SyntaxError) pass through as they are.
ExchangeFailure(sent, fault) ==
  IF ~sent THEN "Invalid auth state"
  ELSE IF fault = "status" THEN "Token exchange failed"
  ELSE IF fault = "network" THEN "TypeError: Failed to fetch"
  ELSE "SyntaxError: Unexpected token"

\* The rejections of an exchange whose request was sent.
SentExchangeFailures == {ExchangeFailure(TRUE, f) : f \in ExchangeFaults}

\* The promise of exchangeCodeForTokens settles.  A call that failed the state
\* check rejects; a sent request resolves with a token response or rejects
\* (non-success status, network failure, unreadable body).  The page shows
\* the same message for every rejection.  On success the chain goes on to
\* the account-resolution call.
ExchangeSettles ==
  /\ effectQueue = <<>>
  /\ \E i \in 1..Len(calls) :
       /\ calls[i].kind = "exchange"
       /\ \/ /\ calls[i].sent
             /\ \E t \in TokenResponses :
                  calls' = Append(RemoveAt(calls, i), Call("acctB", TRUE, t))
             /\ exchangeResult' = "tokens"
             /\ UNCHANGED <<status, message>>
          \/ /\ calls' = CallsAfterExchangeFailure(calls, i)
             /\ \E fault \in ExchangeFaults :
                  exchangeResult' = ExchangeFailure(calls[i].sent, fault)
             /\ status' = "error"
             /\ message' = ChainFailureMessage(build)
  /\ UNCHANGED <<inputVars, pkce, cookies, providerVars, effectQueue,
                 accessHint, userEmail, hasExchangedRef, lastBranch,
                 tokenReqLog, exchangeCalls, schedVars, now, navigated, authRequest>>
  /\ UNCHANGED <<loginVars, storeVars, landingVars, pageMounted, storedUser>>
  /\ UNCHANGED pendingVars

\* Variant: the refresh cookie is always written from the response, also when
\* the response carries no refresh token.
PersistTokenResponseOverwrite(c, t) ==
  LET c1 == setAccessTokenCookie(c, TokenData[t].access_token, TokenData[t].expires_in)
  IN [c1 EXCEPT !.refresh = TokenData[t].refresh_token,
                !.refreshMaxAge = IF TokenData[t].refresh_expires_in = NoNum
                                    THEN DefaultRefreshMaxAge
                                    ELSE TokenData[t].refresh_expires_in]

\* bootstrap/from-id-token answered in the code+state path.  The current page
\* persists the token pair after setting status; the earlier page does not.
PersistTokenResponse(c, t) ==
  LET c1 == setAccessTokenCookie(c, TokenData[t].access_token, TokenData[t].expires_in)
  IN IF TokenData[t].refresh_token # NULL
       THEN setRefreshTokenCookie(c1, TokenData[t].refresh_token,
              IF TokenData[t].refresh_expires_in = NoNum
                THEN DefaultRefreshMaxAge ELSE TokenData[t].refresh_expires_in)
       ELSE c1

\* Variant: the token pair is persisted as soon as the exchange returned it,
\* whatever the account-resolution call answers.
CookiesAfterAccountResolutionEager(b, c, t, ok) ==
  IF b = "legacy" THEN c ELSE PersistTokenResponse(c, t)

\* The store after the continuation of the exchange: the cookie writes come
\* after `if (!response.ok) throw`, so a failed account resolution skips them.
CookiesAfterAccountResolution(b, c, t, ok) ==
  IF ok /\ b # "legacy" THEN PersistTokenResponse(c, t) ELSE c

AccountResolutionB ==
  /\ effectQueue = <<>>
  /\ \E i \in 1..Len(calls), ok \in BOOLEAN, hint \in AccessHints :
       /\ calls[i].kind = "acctB"
       /\ calls' = RemoveAt(calls, i)
       /\ status' = AccountResolutionStatus(ok)
       /\ IF ok
            THEN /\ accessHint' = hint
                 /\ userEmail' = "user@example.com"
                 /\ message' = IF build = "legacy" THEN HintMessageLegacy(hint)
                               ELSE HintMessage(hint)
                 /\ storedUser' = IF build = "legacy" THEN storedUser
                                  ELSE StoredUserOf("user@example.com")
                 /\ hintOrg' = serverOrg
            ELSE /\ message' = ChainFailureMessage(build)
                 /\ UNCHANGED <<accessHint, userEmail, storedUser, hintOrg>>
       /\ cookies' = CookiesAfterAccountResolution(build, cookies, calls[i].tok, ok)
  /\ UNCHANGED <<inputVars, pkce, providerVars,
                 hasExchangedRef, lastBranch, tokenReqLog, exchangeCalls,
                 schedVars, now, navigated, authRequest>>
  /\ UNCHANGED <<loginVars, storeVars, serverOrg, portalVars, exchangeResult,
                 pageMounted>>
  /\ UNCHANGED pendingVars
  /\ effectQueue' =
       PortalEffects(build, mounted /\ pageMounted, hintOrg, accessHint,
                     hintOrg', accessHint')

\* bootstrap/from-id-token answered in the fragment path (id_token present).
AccountResolutionA ==
  /\ effectQueue = <<>>
  /\ \E i \in 1..Len(calls), ok \in BOOLEAN, hint \in AccessHints :
       /\ calls[i].kind = "acctA"
       /\ calls' = RemoveAt(calls, i)
       /\ status' = AccountResolutionStatus(ok)
       /\ IF ok
            THEN /\ accessHint' = hint
                 /\ userEmail' = "user@example.com"
                 /\ message' = HintMessage(hint)
                 /\ storedUser' = StoredUserOf("user@example.com")
                 /\ hintOrg' = serverOrg
            ELSE /\ message' = "Unable to complete sign-in. Please try again."
                 /\ UNCHANGED <<accessHint, userEmail, storedUser, hintOrg>>
  /\ UNCHANGED <<inputVars, pkce, cookies, providerVars,
                 hasExchangedRef, lastBranch, tokenReqLog, exchangeCalls,
                 schedVars, now, navigated, authRequest>>
  /\ UNCHANGED <<loginVars, storeVars, serverOrg, portalVars, exchangeResult,
                 pageMounted>>
  /\ UNCHANGED pendingVars
  /\ effectQueue' =
       PortalEffects(build, mounted /\ pageMounted, hintOrg, accessHint,
                     hintOrg', accessHint')

\* The current-user call answered in the fragment path (no id_token).
CurrentUser ==
  /\ effectQueue = <<>>
  /\ \E i \in 1..Len(calls), ok \in BOOLEAN :
       /\ calls[i].kind = "me"
       /\ calls' = RemoveAt(calls, i)
       /\ userEmail' = IF ok THEN "user@example.com" ELSE NULL
       /\ accessHint' = LocalAccessHint
       /\ hintOrg' = NULL
       /\ status' = CurrentUserStatus(ok)
       /\ message' = "Success! You can go to the Portal when ready."
       /\ storedUser' = IF ok THEN StoredUserOf("user@example.com") ELSE storedUser
  /\ UNCHANGED <<inputVars, pkce, cookies, providerVars,
                 hasExchangedRef, lastBranch, tokenReqLog, exchangeCalls,
                 schedVars, now, navigated, authRequest>>
  /\ UNCHANGED <<loginVars, storeVars, serverOrg, portalVars, exchangeResult,
                 pageMounted>>
  /\ UNCHANGED pendingVars
  /\ effectQueue' =
       PortalEffects(build, mounted /\ pageMounted, hintOrg, accessHint,
                     hintOrg', accessHint')

\* Calls of the callback page (not of the scheduler) in flight.
PageCalls(cs) == SelectSeq(cs, LAMBDA c : c.kind # "refresh")

\* The effects of the page the router shows next: every page mounts a
\* TopNav of its own, and LandingPage has an effect of its own after it.
Destinations == {"/", "other"}
PageEffects(dest) ==
  IF dest = "/" THEN <<"topNav", "landing">> ELSE <<"topNav">>

\* The router leaves /auth/callback for another page of the application (the
\* brand link of TopNav, which leads to LandingPage, another link of TopNav,
\* "Back to login"): AuthCallbackPage and its TopNav are torn down, App and
\* the provider stay, and the page shown instead is mounted.  The effect of
\* AuthCallbackPage has no cleanup, so the promise chains it started keep
\* their continuations, and so does the request of the old TopNav;
\* afterwards the page variables stand for the arguments of the last setter
\* calls, which React drops.  The model follows a teardown that happens with
\* a call of the page in flight, once the tenant resolution has ended.
LeaveCallbackPage ==
  /\ OnPage
  /\ mounted
  /\ pageMounted
  /\ build # "legacy"
  /\ effectQueue = <<>>
  /\ loads = {}
  /\ PageCalls(calls) # <<>>
  /\ pageMounted' = FALSE
  /\ \E dest \in Destinations : effectQueue' = PageEffects(dest)
  /\ UNCHANGED <<inputVars, pkce, cookies, providerVars,
                 pageVars, calls, tokenReqLog, exchangeCalls, schedVars,
                 now, navigated, authRequest>>
  /\ UNCHANGED <<loginVars, storeVars, landingVars, exchangeResult, storedUser>>
  /\ UNCHANGED pendingVars

\* startAuthRedirect is called with one of two modes.
AuthModes == {"login", "register"}

\* A call of startAuthRedirect that waits for the digest of crypto.subtle:
\* what its closure holds.
PendingRedirect(mode, s, v) == [mode |-> mode, state |-> s, verifier |-> v]

\* startAuthRedirect from the sessionStorage writes on: it stores the PKCE
\* session, reads the issuer and the client of the configuration cached by
\* then, and assigns window.location.
AuthRedirectWrites(mode, s, v, subtle) ==
  /\ pkce' = StoredPkce(s, v)
  /\ authRequest' = AuthRequest(mode, s, v, subtle, getBootstrapConfig)
  /\ navigated' = "idp"

\* startAuthRedirect(mode), called by a click.  randomString draws the state
\* and the verifier and the function awaits sha256(verifier).  With
\* crypto.subtle the digest settles in a later task: the click returns with
\* nothing written, and the button can be clicked again.  Without it sha256
\* returns the verifier at once and the function goes on in a microtask of
\* the click, before any other callback.  crypto.subtle is there or not for
\* the whole page load.
startAuthRedirect(mode) ==
  \E s \in FreshStates, v \in FreshVerifiers, subtle \in BOOLEAN :
    IF subtle
      THEN /\ Len(authRedirects) < MaxAuthRedirects
           /\ authRedirects' = Append(authRedirects, PendingRedirect(mode, s, v))
           /\ UNCHANGED <<pkce, authRequest, navigated>>
      ELSE /\ authRedirects = <<>>
           /\ AuthRedirectWrites(mode, s, v, FALSE)
           /\ UNCHANGED authRedirects

\* The button of the error card: startAuthRedirect('login').
StartAuthRedirect ==
  /\ OnPage
  /\ effectQueue = <<>>
  /\ mounted
  /\ pageMounted
  /\ status = "error"
  /\ startAuthRedirect("login")
  /\ UNCHANGED <<inputVars, cookies, providerVars, effectQueue, pageVars,
                 calls, tokenReqLog, exchangeCalls, schedVars, now>>
  /\ UNCHANGED auxVars
  /\ UNCHANGED <<storedUserFetchedAt, topNavCalls>>

\* The digest of a waiting call settles and startAuthRedirect goes on.
\* Whatever ran since the click does not stop it: the page may have been
\* left, and an earlier call may already have assigned the location (the
\* navigation it started has not unloaded the document when the next digest
\* settles).  Digests settle in any order.
StartAuthRedirectResumes ==
  /\ effectQueue = <<>>
  /\ \E i \in 1..Len(authRedirects) :
       /\ authRedirects' = RemoveAt(authRedirects, i)
       /\ AuthRedirectWrites(authRedirects[i].mode, authRedirects[i].state,
                             authRedirects[i].verifier, TRUE)
  /\ UNCHANGED <<inputVars, cookies, providerVars, effectQueue, pageVars,
                 calls, tokenReqLog, exchangeCalls, schedVars, now>>
  /\ UNCHANGED auxVars
  /\ UNCHANGED <<storedUserFetchedAt, topNavCalls>>



\* The earlier page leaves for the application 1500 ms after a ready outcome
\* that lets the user continue.
LegacyRedirect ==
  /\ build = "legacy"
  /\ effectQueue = <<>>
  /\ status = "ready"
  /\ accessHint \in {"ok", "personal_org_created"}
  /\ navigated' = "app"
  /\ authRequest' = authRequest
  /\ UNCHANGED <<inputVars, pkce, cookies, providerVars, effectQueue,
                 pageVars, calls, tokenReqLog, exchangeCalls, schedVars,
                 now>>
  /\ UNCHANGED auxVars
  /\ UNCHANGED pendingVars

\* ---------------------------------------------------------- useTokenRefresh
\* The mount effect of useTokenRefresh: scheduleRefresh().
EffectTokenRefresh ==
  /\ effectQueue # <<>> /\ Head(effectQueue) = "tokenRefresh"
  /\ effectQueue' = Tail(effectQueue)
  /\ timer' = scheduleRefresh(cookies, timer, now)
  /\ pendingTimers' = PendingAfterSchedule(pendingTimers, cookies, timer, now)
  /\ lastArm' = ArmRecord(cookies, timer, now)
  /\ UNCHANGED <<lastRefresh, mounted>>
  /\ UNCHANGED <<inputVars, pkce, cookies, providerVars, pageVars, calls,
                 tokenReqLog, exchangeCalls, refreshes, now, navigated, authRequest>>
  /\ UNCHANGED auxVars
  /\ UNCHANGED pendingVars

\* The timer fires: refreshAccessToken is called with the refresh token the
\* timer callback closed over, and POSTs the refresh grant.
TimerFires ==
  /\ effectQueue = <<>>
  /\ timer.pending
  /\ now >= timer.fireAt
  /\ refreshes < MaxRefreshes
  /\ refreshes' = refreshes + 1
  /\ timer' = [timer EXCEPT !.pending = FALSE]
  /\ pendingTimers' = PendingAfterFire(pendingTimers)
  /\ UNCHANGED <<lastRefresh, mounted, lastArm>>
  /\ tokenReqLog' = Append(tokenReqLog,
       TokenRequest("refresh_token", getBootstrapConfig, timer.refreshToken, NULL))
  /\ calls' = Append(calls, Call("refresh", TRUE, NULL))
  /\ UNCHANGED <<inputVars, pkce, cookies, providerVars, effectQueue,
                 pageVars, exchangeCalls, now, navigated, authRequest>>
  /\ UNCHANGED auxVars
  /\ UNCHANGED pendingVars

\* The refresh grant was answered with a new pair: persist and re-arm.
RefreshSucceeds ==
  /\ effectQueue = <<>>
  /\ \E i \in 1..Len(calls), t \in TokenResponses :
       /\ calls[i].kind = "refresh"
       /\ calls' = RemoveAt(calls, i)
       /\ cookies' = PersistTokenResponse(cookies, t)
       /\ timer' = scheduleRefresh(PersistTokenResponse(cookies, t), timer, now)
       /\ pendingTimers' = PendingAfterSchedule(pendingTimers,
                              PersistTokenResponse(cookies, t), timer, now)
       /\ lastArm' = ArmRecord(PersistTokenResponse(cookies, t), timer, now)
  /\ lastRefresh' = "ok"
  /\ mounted' = mounted
  /\ UNCHANGED <<inputVars, pkce, providerVars, effectQueue, pageVars,
                 tokenReqLog, exchangeCalls, refreshes, now, navigated, authRequest>>
  /\ UNCHANGED auxVars
  /\ UNCHANGED pendingVars

\* The refresh grant failed: clear both tokens and go to /login.
RefreshFails ==
  /\ effectQueue = <<>>
  /\ \E i \in 1..Len(calls) :
       /\ calls[i].kind = "refresh"
       /\ calls' = RemoveAt(calls, i)
  /\ cookies' = RefreshFailureCookies(cookies)
  /\ timer' = RefreshFailureTimer(cookies, timer, now)
  /\ navigated' = "login"
  /\ lastRefresh' = "failed"
  /\ UNCHANGED <<mounted, pendingTimers, lastArm, authRequest>>
  /\ UNCHANGED <<inputVars, pkce, providerVars, effectQueue, pageVars,
                 tokenReqLog, exchangeCalls, refreshes, now>>
  /\ UNCHANGED auxVars
  /\ UNCHANGED pendingVars

\* App is unmounted: the cleanup of the effect clears the timer the ref
\* names.  The model follows an unmount that happens once the mount effects
\* have run and nothing but the scheduler has work in flight; promises of the
\* scheduler that are pending keep their continuations.
Unmount ==
  /\ OnPage
  /\ mounted
  /\ build # "legacy"
  /\ effectQueue = <<>>
  /\ loads = {}
  /\ \A i \in 1..Len(calls) : calls[i].kind = "refresh"
  /\ mounted' = FALSE
  /\ timer' = [timer EXCEPT !.pending = FALSE]
  /\ pendingTimers' = clearTimeout(pendingTimers, timer)
  /\ UNCHANGED <<inputVars, pkce, cookies, providerVars, effectQueue,
                 pageVars, calls, tokenReqLog, exchangeCalls, refreshes,
                 lastRefresh, lastArm, now, navigated, authRequest>>
  /\ UNCHANGED auxVars
  /\ UNCHANGED pendingVars

\* Date.now() is read by scheduleRefresh, and by TopNav: in its effect
\* (at mount) and when fetchCurrentUser stores the user.  The clock is
\* followed while the scheduler can still run or the request of TopNav is
\* in flight.  The mount effects run at time 0, the time of the page load.
ClockObserved ==
  \/ timer.pending
  \/ topNavCalls # <<>>
  \/ \E i \in 1..Len(calls) : calls[i].kind = "refresh"

\* Time passes.
Tick ==
  /\ effectQueue = <<>>
  /\ ClockObserved
  /\ now < MaxNow * TickMs
  /\ now' = now + TickMs
  /\ UNCHANGED <<inputVars, pkce, cookies, providerVars, effectQueue,
                 pageVars, calls, tokenReqLog, exchangeCalls, schedVars,
                 navigated, authRequest>>
  /\ UNCHANGED auxVars
  /\ UNCHANGED pendingVars

\* ------------------------------------- AuthCallbackPage: the portal look-up
\* Answers of the portal look-up: the fetch rejects, answers non-success, or
\* answers success with or without portal_url.
PortalResponses ==
  { [kind |-> "rejected", portal_url |-> NULL],
    [kind |-> "notOk", portal_url |-> NULL],
    [kind |-> "ok", portal_url |-> NULL],
    [kind |-> "ok", portal_url |-> "portalT"],
    [kind |-> "ok", portal_url |-> "portalT/"] }

\* Variant: the look-up is made for every hint that names an organization.
PortalGuardAnyAction(guid, action) == guid # NULL

\* The portal effect goes on when the hint names an organization and its
\* action is ok or personal_org_created.
PortalGuard(guid, action) ==
  guid # NULL /\ action \in {"ok", "personal_org_created"}

\* if (data?.portal_url) setPortalUrl(data.portal_url)
PortalUrlAfter(current, resp) ==
  IF resp.kind = "ok" /\ resp.portal_url # NULL THEN resp.portal_url
  ELSE current

nonPortalVars == <<pendingVars, inputVars, pkce, cookies, providerVars,
                   pageVars, calls, tokenReqLog, exchangeCalls, schedVars,
                   now, navigated, authRequest, loginVars, storeVars,
                   serverOrg, hintOrg, exchangeResult, pageMounted,
                   storedUser>>

\* The dependencies one run of the second effect sees: those of the render
\* it belongs to.  The first run belongs to the first render, whose hint is
\* null; a later one to the render of the commit that queued it.
PortalDepsAt(deps, org, hint) ==
  IF deps = NoDeps THEN <<NULL, NULL>> ELSE <<org, hint>>

\* The second effect of AuthCallbackPage; React runs it after the first commit
\* and after every commit that changed the organization or the action of the
\* hint.
EffectPortal ==
  /\ build # "legacy"
  /\ effectQueue # <<>> /\ Head(effectQueue) = "portal"
  /\ effectQueue' = Tail(effectQueue)
  /\ portalDeps' = PortalDepsAt(portalDeps, hintOrg, accessHint)
  /\ IF PortalGuard(PortalDepsAt(portalDeps, hintOrg, accessHint)[1],
                    PortalDepsAt(portalDeps, hintOrg, accessHint)[2])
       THEN /\ portalCalls' = Append(portalCalls, hintOrg)
            /\ portalLog' = portalLog + 1
       ELSE UNCHANGED <<portalCalls, portalLog>>
  /\ UNCHANGED <<nonPortalVars, portalUrl>>

\* The portal look-up settles.
PortalAnswers ==
  /\ effectQueue = <<>>
  /\ \E i \in 1..Len(portalCalls), resp \in PortalResponses :
       /\ portalCalls' = RemoveAt(portalCalls, i)
       /\ portalUrl' = PortalUrlAfter(portalUrl, resp)
  /\ UNCHANGED <<nonPortalVars, effectQueue, portalLog, portalDeps>>

\* --------------------------------------------------------------- the page
Next ==
  \/ EffectCallback
  \/ EffectUncaughtError
  \/ EffectPortal
  \/ PortalAnswers
  \/ EffectTopNav
  \/ EffectLanding
  \/ FetchCurrentUserSettles
  \/ EffectCallbackLegacy
  \/ EffectLoad
  \/ EffectCache
  \/ EffectTokenRefresh
  \/ Reload
  \/ LoadSucceeds
  \/ LoadFails
  \/ Reevaluate
  \/ ExchangeSettles
  \/ AccountResolutionB
  \/ AccountResolutionA
  \/ CurrentUser
  \/ StartAuthRedirect
  \/ StartAuthRedirectResumes
  \/ LegacyRedirect
  \/ TimerFires
  \/ RefreshSucceeds
  \/ RefreshFails
  \/ Unmount
  \/ LeaveCallbackPage
  \/ Tick

Spec == Init /\ [][Next]_vars


\* ================================================================ claims
CodeShape(u) == ~u.err /\ u.h_access = NULL
ExchangeShape(u) == CodeShape(u) /\ u.code # NULL /\ u.state # NULL
MissingShape(u) == CodeShape(u) /\ (u.code = NULL \/ u.state = NULL)
FragmentShape(u) == ~u.err /\ u.h_access # NULL

ExchangeRequests ==
  Cardinality({i \in 1..Len(tokenReqLog) : tokenReqLog[i].grant = "authorization_code"})

CallsOf(cs, kind) == Cardinality({i \in 1..Len(cs) : cs[i].kind = kind})

\* C1: within one page load the orchestrator calls exchangeCodeForTokens at
\* most once and sends at most one authorization_code request, however often
\* its effect is evaluated again, and the latch is set once it has called it.
C1_AtMostOneExchange ==
  /\ exchangeCalls <= 1
  /\ ExchangeRequests <= 1
  /\ (exchangeCalls > 0 => hasExchangedRef)

\* The exchange request was sent and a later evaluation found the latch set.
C1_Witness ==
  /\ ExchangeShape(url)
  /\ exchangeCalls = 1
  /\ ExchangeRequests = 1
  /\ lastBranch = "latched"

\* C2: exchangeCodeForTokens sends the token request exactly when the state of
\* the callback equals the stored state and a verifier is stored; otherwise it
\* rejects (InvalidAuthState) with no request sent.
C2_StateCheckDecidesRequest ==
  (exchangeCalls > 0 /\ authRequest = NoAuthRequest) =>
     IF pkce.state # NULL /\ url.state = pkce.state /\ pkce.verifier # NULL
       THEN ExchangeRequests = exchangeCalls
            /\ \A i \in 1..Len(calls) : calls[i].kind = "exchange" => calls[i].sent
       ELSE ExchangeRequests = 0
            /\ \A i \in 1..Len(calls) : calls[i].kind = "exchange" => ~calls[i].sent
            /\ CallsOf(calls, "acctB") = 0
            /\ status # "ready"

\* A callback whose state differs from the one startAuthRedirect stored was
\* rejected without a request.
C2_Witness ==
  /\ exchangeCalls = 1
  /\ pkce = StoredPkce("s1", "v1")
  /\ url.state = "s2"
  /\ ExchangeRequests = 0
  /\ status = "error"

\* C3: a callback with an error indicator is in status error once the effect
\* has run, and no evaluation of the effect ever starts a token exchange.
C3_ErrorIndicatorNoExchange ==
  url.err =>
    /\ exchangeCalls = 0
    /\ ExchangeRequests = 0
    /\ CallsOf(calls, "exchange") = 0
    /\ (lastBranch # "none" => status = "error")

\* C4: when the current-user call of a fragment callback without id_token
\* settles, with any outcome, status becomes ready and the stored access token
\* is what it was before; unless a refresh replaced it, that is the token of
\* the fragment.
C4_CurrentUserDegrades ==
  [][ CallsOf(calls', "me") < CallsOf(calls, "me") =>
        /\ status' = "ready"
        /\ getAccessTokenCookie(cookies') = getAccessTokenCookie(cookies)
        /\ (lastRefresh = "none" =>
              getAccessTokenCookie(cookies) = parseFragmentTokens(url).access_token)
    ]_vars

\* The current-user call was made and failed: ready, no e-mail, hint ok, and
\* the token of the fragment still stored.
C4_Witness ==
  /\ FragmentShape(url) /\ url.h_id = NULL
  /\ envAuthnUrl # NULL
  /\ CallsOf(calls, "me") = 0
  /\ status = "ready"
  /\ userEmail = NULL
  /\ accessHint = "ok"
  /\ getAccessTokenCookie(cookies) = url.h_access

\* C5: a fragment callback with access token and id_token never ends in
\* status error, whatever the account-resolution call answers.
C5_FragmentIdTokenNeverError ==
  (build # "legacy" /\ FragmentShape(url) /\ url.h_id # NULL) => status # "error"

\* C6: in the code+state shape no exchange is started while the tenant
\* configuration is unresolved: until then the page stays in loading with the
\* latch unset, and every exchange request was sent by an evaluation that saw
\* a configuration.
C6_NoExchangeBeforeConfig ==
  (build # "legacy" /\ ExchangeShape(url)) =>
    /\ (config = NULL /\ cachedBootstrapConfig = NULL =>
          /\ status = "loading"
          /\ ~hasExchangedRef
          /\ exchangeCalls = 0)
    /\ \A i \in 1..Len(tokenReqLog) :
          tokenReqLog[i].grant = "authorization_code" => tokenReqLog[i].seen # NULL

\* The page waited for the configuration and then started the exchange.
C6_Witness ==
  /\ build # "legacy"
  /\ ExchangeShape(url)
  /\ message = "Loading configuration..."
  /\ config # NULL
  /\ exchangeCalls = 1
  /\ ExchangeRequests = 1

\* C7: the token endpoint and the client id of the exchange request are those
\* of the tenant configuration the orchestrator saw when it started the
\* exchange.
C7_ExchangeUsesResolvedConfig ==
  build # "legacy" =>
    \A i \in 1..Len(tokenReqLog) :
      tokenReqLog[i].grant = "authorization_code" =>
        /\ tokenReqLog[i].endpoint = TokenEndpoint(tokenReqLog[i].seen)
        /\ tokenReqLog[i].client_id = getOidcClientId(tokenReqLog[i].seen)

\* C8: a callback without error indicator and fragment token that lacks code
\* or state is in status error once tenant resolution has ended, whatever its
\* outcome, and nothing is left to run.
C8_MissingReachesError ==
  (MissingShape(url) /\ effectQueue = <<>> /\ loads = {}) => status = "error"

\* C9: status starts at loading, and ready and error are terminal.
C9_TerminalStatus ==
  /\ status = "loading"
  /\ [][ /\ (status = "ready" => status' = "ready")
         /\ (status = "error" => status' = "error") ]_vars

\* Ready, then the tenant configuration changed again and the effect was
\* evaluated again.
C9_Witness ==
  /\ status = "ready"
  /\ lastBranch = "latched"
  /\ loadsStarted = 2
  /\ loads = {}

RefreshRequests ==
  Cardinality({i \in 1..Len(tokenReqLog) : tokenReqLog[i].grant = "refresh_token"})

\* C10: the step in which the refresh call fails clears both tokens from the
\* store and assigns /login to window.location; from then on no timer is
\* armed, no refresh request is in flight and none is sent.
C10_RefreshFailureIsFatal ==
  /\ [][ (lastRefresh' = "failed" /\ lastRefresh # "failed") =>
           /\ getAccessTokenCookie(cookies') = NULL
           /\ getRefreshTokenCookie(cookies') = NULL
           /\ navigated' = "login" ]_vars
  /\ [](lastRefresh = "failed" =>
           /\ ~timer.pending
           /\ pendingTimers = 0
           /\ CallsOf(calls, "refresh") = 0)
  /\ [][ lastRefresh = "failed" =>
           /\ lastRefresh' = "failed"
           /\ refreshes' = refreshes
           /\ RefreshRequests' = RefreshRequests ]_vars

\* The timer fired and the refresh grant failed.
C10_Witness ==
  /\ lastRefresh = "failed"
  /\ refreshes = 1
  /\ Len(tokenReqLog) >= 1
  /\ tokenReqLog[Len(tokenReqLog)].grant = "refresh_token"

\* C11: a step that consumes a refresh call with success stores the new access
\* token, stores the new refresh token when the response carries one and
\* keeps the stored one otherwise, and arms the timer from the access token
\* it has just stored.
C11_RefreshSuccessPersistsAndRearms ==
  [][ (CallsOf(calls', "refresh") < CallsOf(calls, "refresh")
         /\ lastRefresh' = "ok")
      => \E t \in TokenResponses :
           /\ getAccessTokenCookie(cookies') = TokenData[t].access_token
           /\ getRefreshTokenCookie(cookies') =
                IF TokenData[t].refresh_token # NULL
                  THEN TokenData[t].refresh_token
                  ELSE getRefreshTokenCookie(cookies)
           /\ timer'.pending
           /\ timer'.fireAt =
                now + Max(0, (TokenExp[TokenData[t].access_token] * 1000 - now)
                               - LeadTimeMs)
           /\ timer'.refreshToken = getRefreshTokenCookie(cookies') ]_vars

C11_Witness ==
  /\ lastRefresh = "ok"
  /\ refreshes = 1
  /\ getAccessTokenCookie(cookies) = TokenData["T2"].access_token
  /\ getRefreshTokenCookie(cookies) = "R0"
  /\ timer.pending
  /\ timer.refreshToken = "R0"

\* C12: the scheduler never has more than one timer pending in the browser,
\* and a pending timer is the one refreshTimerRef names.
C12_AtMostOnePendingTimer ==
  /\ pendingTimers \in {0, 1}
  /\ (pendingTimers = 1) <=> timer.pending

C12_Witness ==
  /\ lastRefresh = "ok"
  /\ refreshes = 1
  /\ lastArm.result = "armed"
  /\ pendingTimers = 1

\* C13: once App is unmounted no timer of the scheduler is pending, whatever
\* completes afterwards.
C13_NoTimerAfterUnmount ==
  ~mounted => (pendingTimers = 0 /\ ~timer.pending)

\* C14: when scheduleRefresh found the access token or the refresh token
\* missing, no timer is pending, no refresh call is in flight, and no refresh
\* request is sent for as long as that call stays the last arming.
C14_NoTokensNoTimer ==
  [][ lastArm'.result = "noTokens"
      => /\ ~timer'.pending
         /\ pendingTimers' = 0
         /\ CallsOf(calls', "refresh") = 0
         /\ (lastArm.result = "noTokens" => RefreshRequests' = RefreshRequests) ]_vars

C14_Witness ==
  /\ lastArm.result = "noTokens"
  /\ getAccessTokenCookie(cookies) # NULL
  /\ getRefreshTokenCookie(cookies) = NULL
  /\ effectQueue = <<>>
  /\ loads = {}
  /\ ~timer.pending
  /\ RefreshRequests = 0

\* C15: the delay scheduleRefresh passes to setTimeout is
\* max(0, (expiry - now) - 60000 ms): never negative, 0 for a token that
\* expires within 60 seconds or has expired, at most 30 seconds for a token
\* that expires in 90 seconds.
C15_RefreshDelay ==
  (lastArm.result = "armed" /\ lastArm.exp # NaN) =>
    LET remaining == (lastArm.exp * 1000) - lastArm.at
    IN /\ LeadTimeMs = 60000
       /\ lastArm.delay = (IF remaining - 60000 > 0 THEN remaining - 60000 ELSE 0)
       /\ lastArm.delay >= 0
       /\ (remaining <= 60000 => lastArm.delay = 0)
       /\ (remaining = 90000 => lastArm.delay <= 30000)
       /\ (timer.pending => timer.fireAt = lastArm.at + lastArm.delay)

\* An arming with a token whose expiry is not in the future.
C15_Witness ==
  /\ lastArm.result = "armed"
  /\ lastArm.exp # NaN
  /\ (lastArm.exp * 1000) - lastArm.at <= 0
  /\ lastArm.delay = 0
  /\ timer.pending

\* C16: once an exchange has succeeded (its account-resolution call is in
\* flight) the stored PKCE session no longer passes the state check for the
\* same callback state.
C16_PkceInvalidatedAfterExchange ==
  CallsOf(calls, "acctB") > 0
    => ~AuthStateValid(pkce.state, url.state, pkce.verifier)

\* C17: when startAuthRedirect has sent the browser to the authorization
\* endpoint, session storage holds the state and the verifier it generated,
\* and the state of the authorization request is the stored state, so the
\* callback of this flow passes the state check.
C17_PkceStoredBeforeRedirect ==
  /\ navigated = "idp" => authRequest # NoAuthRequest
  /\ authRequest # NoAuthRequest =>
       /\ pkce.state \in FreshStates
       /\ pkce.verifier \in FreshVerifiers
       /\ authRequest.state = pkce.state
       /\ AuthStateValid(pkce.state, authRequest.state, pkce.verifier)

\* Two clicks waited for the digest; the first call to go on has stored the
\* session and assigned the location, the other still waits.
C17_Witness ==
  /\ navigated = "idp"
  /\ pkce = [state |-> "s2", verifier |-> "v2"]
  /\ authRequest.state = "s2"
  /\ url.state = "s1"
  /\ Len(authRedirects) = 1

\* C18: the authorization request carries method S256 with the digest of the
\* stored verifier, or method plain with the stored verifier itself.
C18_ChallengeMatchesMethod ==
  navigated = "idp" =>
    \/ /\ authRequest.code_challenge_method = "S256"
       /\ authRequest.code_challenge = <<"SHA-256", pkce.verifier>>
    \/ /\ authRequest.code_challenge_method = "plain"
       /\ authRequest.code_challenge = <<pkce.verifier>>

C18_Witness ==
  /\ navigated = "idp"
  /\ authRequest.code_challenge_method = "plain"
  /\ authRequest.code_challenge = <<"v2">>
  /\ pkce.verifier = "v2"

\* C19: every token request and every authorization redirect goes to the
\* endpoint, and carries the client id, of a TenantConfig bundle the
\* resolution endpoint returned.
C19_EndpointsFromTenantConfig ==
  /\ \A i \in 1..Len(tokenReqLog) :
       \E c \in ServerConfigs :
         /\ tokenReqLog[i].endpoint = TokenEndpoint(c)
         /\ tokenReqLog[i].client_id = getOidcClientId(c)
  /\ navigated = "idp" =>
       \E c \in ServerConfigs :
         /\ authRequest.endpoint = AuthEndpoint(c)
         /\ authRequest.client_id = getOidcClientId(c)

\* C20: while the last tenant resolution has failed, no authorization
\* redirect has been made and no code exchange has been sent by an evaluation
\* that saw anything but a bundle returned by the resolution endpoint.
C20_FailedResolutionBlocksAuth ==
  error # NULL =>
    /\ navigated # "idp"
    /\ \A i \in 1..Len(tokenReqLog) :
         tokenReqLog[i].grant = "authorization_code"
           => tokenReqLog[i].seen \in ServerConfigs

\* C21: once the effects of a commit have run, a tenant resolution that
\* succeeded (the provider's config is the bundle it returned) is what the
\* synchronous accessor returns, on the first load and on every reload, also
\* when the cache held another bundle before.
C21_CacheFollowsSuccess ==
  (effectQueue = <<>> /\ config \in ServerConfigs) =>
    getBootstrapConfig = config

\* A reload returned cfgB after a refresh grant had been sent to the token
\* endpoint of cfgA, which the accessor returned then.
C21_Witness ==
  /\ effectQueue = <<>>
  /\ loadsStarted >= 2
  /\ config = "cfgB"
  /\ getBootstrapConfig = "cfgB"
  /\ \E i \in 1..Len(tokenReqLog) :
       tokenReqLog[i].endpoint = TokenEndpoint("cfgA")

\* ================================================================ LoginPage
\* The login page after the tenant resolution: the social buttons, each
\* calling redirectTo<Provider>(callbackUrl) through handleSocialRedirect.
MaxClicks == 2     \* clicks on a social button the model follows

Providers == {"google", "github", "twitter", "microsoft"}

\* auth_provider.social_providers of each bundle.
SocialProviders ==
  [cfgA |-> {"google", "github"}, cfgB |-> {"twitter", "microsoft"},
   cfgC |-> {"google"}, fallbackConfig |-> {}, fallbackDefault |-> {}]

LoginConfigs == {"cfgA", "cfgB", "cfgC"}
LoginEnvAuthnUrls == {NULL, "authnEnv", "authnEnv/"}

\* `${window.location.origin}/auth/callback` on two origins.
ReturnUrls == {"https://a.example/auth/callback", "https://b.example/auth/callback"}

encodeURIComponent(u) ==
  IF u = "https://a.example/auth/callback"
    THEN "https%3A%2F%2Fa.example%2Fauth%2Fcallback"
  ELSE IF u = "https://b.example/auth/callback"
    THEN "https%3A%2F%2Fb.example%2Fauth%2Fcallback"
  ELSE u

\* .replace(/\/$/, '')
StripTrailingSlash(s) ==
  IF s = "authnEnv/" THEN "authnEnv"
  ELSE IF s = "portalT/" THEN "portalT"
  ELSE s

\* fetchAuthUrl: (config?.services?.authn_url || env || '').replace(/\/$/, '')
SocialAuthnUrl(cfg, env) ==
  StripTrailingSlash(IF AuthnBaseUrl(cfg, env) = NULL THEN ""
                     ELSE AuthnBaseUrl(cfg, env))

\* The GET fetchAuthUrl sends.
BridgeRequest(provider, returnUrl, cfg, env) ==
  [base |-> SocialAuthnUrl(cfg, env), path |-> "/v1/authn/login/",
   provider |-> provider, return_url |-> encodeURIComponent(returnUrl)]

\* What the identity bridge can answer: a failed fetch, a non-success status
\* with a body, a success with or without authorization_url.
BridgeResponses ==
  { [kind |-> "rejected", body |-> "", authorization_url |-> NULL],
    [kind |-> "notOk", body |-> "", authorization_url |-> NULL],
    [kind |-> "notOk", body |-> "jsonMessage", authorization_url |-> NULL],
    [kind |-> "notOk", body |-> "plainLong", authorization_url |-> NULL],
    [kind |-> "ok", body |-> "", authorization_url |-> NULL],
    [kind |-> "ok", body |-> "", authorization_url |-> ""],
    [kind |-> "ok", body |-> "", authorization_url |-> "authzUrl"] }

\* userMessage of the non-success branch.
SocialUserMessage(body) ==
  IF body = "jsonMessage" THEN "message of the bridge"
  ELSE "Sign-in is not available right now."

\* Variant: the answer is used without looking at authorization_url.
fetchAuthUrlResultUnchecked(resp) ==
  IF resp.kind = "rejected" THEN [error |-> "Failed to fetch", url |-> NULL]
  ELSE IF resp.kind = "notOk"
    THEN [error |-> SocialUserMessage(resp.body), url |-> NULL]
  ELSE [error |-> NULL, url |-> resp.authorization_url]

\* fetchAuthUrl after its fetch: the URL it returns or the Error it throws.
fetchAuthUrlResult(resp) ==
  IF resp.kind = "rejected" THEN [error |-> "Failed to fetch", url |-> NULL]
  ELSE IF resp.kind = "notOk"
    THEN [error |-> SocialUserMessage(resp.body), url |-> NULL]
  ELSE IF resp.authorization_url = NULL \/ resp.authorization_url = ""
    THEN [error |-> "Invalid response from auth service", url |-> NULL]
  ELSE [error |-> NULL, url |-> resp.authorization_url]

\* Variant: the social path opens a PKCE session of its own.
PkceAfterSocialStored(p) == StoredPkce("s2", "v2")

\* fetchAuthUrl and redirectTo<Provider> make no sessionStorage call.
PkceAfterSocial(p) == p

callbackVars == <<pendingVars, url, cookies, loading, error, loads, loadsStarted,
                  latestLoadResult,
                  effectQueue, pageVars, calls, tokenReqLog, exchangeCalls,
                  schedVars, now, authRequest, exchangeResult, pageMounted,
                  storedUser, storeVars, landingVars>>

\* The LoginPage of the current builds once the tenant configuration is
\* resolved, and the LoginPage and RegisterPage of the earlier build, which
\* no provider wraps: its accessor returns null.  The mount effects have
\* run: the scheduler of the current builds found the store empty.
LoginInit ==
  /\ build \in Builds
  /\ url \in {u \in CallbackUrls : ~u.err /\ u.code = NULL /\ u.state = NULL
                                   /\ u.h_access = NULL}
  /\ envAuthnUrl \in (IF build = "legacy" THEN {"authnEnv"} ELSE LoginEnvAuthnUrls)
  /\ envControlPlaneUrl = "cpEnv"
  /\ pkce \in PkceStores
  /\ cookies = NoCookies
  /\ config \in (IF build = "legacy" THEN {NULL} ELSE LoginConfigs)
  /\ cachedBootstrapConfig = config
  /\ loading = (build = "legacy")
  /\ error = NULL
  /\ loads = {}
  /\ loadsStarted = (IF build = "legacy" THEN 0 ELSE 1)
  /\ latestLoadResult = (IF build = "legacy" THEN "none" ELSE config)
  /\ effectQueue = <<>>
  /\ status = "loading"
  /\ message = InitialMessage(build)
  /\ accessHint = NULL
  /\ userEmail = NULL
  /\ hasExchangedRef = FALSE
  /\ lastBranch = "none"
  /\ calls = <<>>
  /\ tokenReqLog = <<>>
  /\ exchangeCalls = 0
  /\ timer = NoTimer
  /\ refreshes = 0
  /\ lastRefresh = "none"
  /\ mounted = TRUE
  /\ pendingTimers = 0
  /\ lastArm = (IF build = "legacy" THEN NoArm
                ELSE ArmRecord(cookies, NoTimer, 0))
  /\ now = 0
  /\ navigated = "none"
  /\ authRequest = NoAuthRequest
  /\ socialCalls = <<>>
  /\ bridgeLog = <<>>
  /\ socialError = NULL
  /\ lastBridge = NoBridgeAnswer
  /\ exchangeResult = "none"
  /\ pageMounted = TRUE
  /\ storedUser = NoStoredUser
  /\ storedUserFetchedAt = NoNum
  /\ topNavCalls = <<>>
  /\ authRedirects = <<>>
  /\ hostname = <<"localhost">>
  /\ protocol = "http:"
  /\ envCookieDomain = NoDomain
  /\ envAccessCookieName = NoName
  /\ envRefreshCookieName = NoName
  /\ jar = <<>>
  /\ lastOp = NoOp
  /\ serverOrg = "org1"
  /\ hintOrg = NULL
  /\ portalUrl = NULL
  /\ portalCalls = <<>>
  /\ portalLog = 0
  /\ portalDeps = NoDeps

\* onClick of a social button: handleSocialRedirect(() =>
\* redirectTo<Provider>(callbackUrl)), up to the fetch of fetchAuthUrl or to
\* the Error it throws before it.
SocialClick ==
  /\ OnPage
  /\ Len(bridgeLog) < MaxClicks
  /\ \E provider \in Providers, returnUrl \in ReturnUrls :
       /\ config # NULL
       /\ provider \in SocialProviders[config]
       /\ IF SocialAuthnUrl(getBootstrapConfig, envAuthnUrl) = ""
            THEN /\ socialError' = "AuthN URL not configured"
                 /\ UNCHANGED <<socialCalls, bridgeLog>>
            ELSE /\ socialError' = NULL
                 /\ bridgeLog' = Append(bridgeLog,
                      BridgeRequest(provider, returnUrl, getBootstrapConfig, envAuthnUrl))
                 /\ socialCalls' = Append(socialCalls,
                      [provider |-> provider, returnUrl |-> returnUrl])
  /\ pkce' = PkceAfterSocial(pkce)
  /\ UNCHANGED <<build, envAuthnUrl, envControlPlaneUrl, config, cachedBootstrapConfig,
                 navigated, lastBridge, callbackVars>>

\* The identity bridge answered (or the fetch failed): redirectTo<Provider>
\* assigns window.location.href, or handleSocialRedirect catches the Error.
BridgeAnswers ==
  /\ \E i \in 1..Len(socialCalls), resp \in BridgeResponses :
       /\ socialCalls' = RemoveAt(socialCalls, i)
       /\ lastBridge' = resp
       /\ IF fetchAuthUrlResult(resp).error = NULL
            THEN /\ navigated' = fetchAuthUrlResult(resp).url
                 /\ UNCHANGED socialError
            ELSE /\ socialError' = fetchAuthUrlResult(resp).error
                 /\ UNCHANGED navigated
  /\ pkce' = PkceAfterSocial(pkce)
  /\ UNCHANGED <<build, envAuthnUrl, envControlPlaneUrl, config, cachedBootstrapConfig,
                 bridgeLog, callbackVars>>

\* The LoginPage and the RegisterPage of the earlier build: the button calls
\* startAuthRedirect('login') or startAuthRedirect('register').
LoginPageRedirect ==
  /\ OnPage
  /\ build = "legacy"
  /\ \E mode \in AuthModes : startAuthRedirect(mode)
  /\ UNCHANGED <<inputVars, cookies, providerVars, effectQueue, pageVars,
                 calls, tokenReqLog, exchangeCalls, schedVars, now>>
  /\ UNCHANGED auxVars
  /\ UNCHANGED <<storedUserFetchedAt, topNavCalls>>

LoginNext ==
  \/ SocialClick
  \/ BridgeAnswers
  \/ LoginPageRedirect
  \/ StartAuthRedirectResumes

LoginSpec == LoginInit /\ [][LoginNext]_vars

\* What the identity bridge reads back from the return_url parameter.
decodeURIComponent(e) == CHOOSE u \in ReturnUrls : encodeURIComponent(u) = e

\* An answer redirectTo<Provider> may navigate on.
UsableAnswer(resp) ==
  /\ resp.kind = "ok"
  /\ resp.authorization_url # NULL
  /\ resp.authorization_url # ""

\* C22: redirectTo<Provider>(returnUrl) sends the identity bridge a request
\* for that provider whose return_url parameter is the given returnUrl; when
\* the answer comes, it navigates to authorization_url if the answer is
\* successful and carries a non-empty one, and otherwise raises an error
\* (shown as socialError) and does not navigate.  No other step leaves the
\* page, but for startAuthRedirect, which leaves for the identity provider.
C22_SocialRedirectNeedsAuthorizationUrl ==
  [][ /\ (Len(bridgeLog') > Len(bridgeLog) =>
            LET req == bridgeLog'[Len(bridgeLog')]
                call == socialCalls'[Len(socialCalls')]
            IN /\ req.provider = call.provider
               /\ decodeURIComponent(req.return_url) = call.returnUrl
               /\ req.base # ""
               /\ navigated' = navigated)
      /\ (Len(socialCalls') < Len(socialCalls) =>
            IF UsableAnswer(lastBridge')
              THEN navigated' = lastBridge'.authorization_url
              ELSE /\ navigated' = navigated
                   /\ socialError' # NULL)
      /\ ((navigated' # navigated /\ navigated' # "idp") =>
            /\ Len(socialCalls') < Len(socialCalls)
            /\ UsableAnswer(lastBridge'))
    ]_vars

\* A click was answered without authorization_url (error raised, still on the
\* page), and a second click was answered with one and navigated.
C22_Witness ==
  /\ Len(bridgeLog) = 2
  /\ socialError = "Invalid response from auth service"
  /\ UsableAnswer(lastBridge)
  /\ navigated = lastBridge.authorization_url

\* C23: no step of the social redirect path (the click that sends the request
\* to the identity bridge, the answer that navigates, the answer or the
\* missing AuthN URL that raises the error) changes the stored state and
\* code_verifier.  (The navigation to the identity provider is made by
\* startAuthRedirect, which is not on this path.)
C23_SocialRedirectKeepsPkce ==
  [][ (\/ bridgeLog' # bridgeLog
       \/ socialCalls' # socialCalls
       \/ socialError' # socialError
       \/ (navigated' # navigated /\ navigated' # "idp")) => pkce' = pkce ]_vars

\* With a PKCE session stored, one social redirect failed and another one
\* navigated to the provider: the session is still the stored one.
C23_Witness ==
  /\ pkce = StoredPkce("s1", "v1")
  /\ socialError # NULL
  /\ lastBridge.kind = "ok"
  /\ navigated = "authzUrl"
  /\ socialCalls = <<>>

\* C24: every call of exchangeCodeForTokens sends at most one request to the
\* token endpoint; when a sent exchange fails, and ever after, no
\* authorization_code request is sent again, no exchange is called again or
\* left in flight, and the orchestrator is in status error.  A sent exchange
\* fails on a non-success status, on a rejected fetch and on a body that is
\* not JSON.
C24_FailedExchangeIsNotRetried ==
  [][ /\ ExchangeRequests' <= exchangeCalls'
      /\ (exchangeResult' \in SentExchangeFailures =>
            /\ status' = "error"
            /\ ExchangeRequests' = ExchangeRequests
            /\ exchangeCalls' = exchangeCalls
            /\ CallsOf(calls', "exchange") = 0
            /\ CallsOf(calls', "acctB") = 0)
    ]_vars

\* The token endpoint refused the one request that was sent.
C24_Witness ==
  /\ exchangeResult = "Token exchange failed"
  /\ ExchangeRequests = 1
  /\ exchangeCalls = 1
  /\ status = "error"
  /\ calls = <<>>

\* C25: once the callback page is torn down (the route is left, or App is
\* unmounted), a result of one of its calls (token exchange, account
\* resolution, current-user lookup of the page or of its TopNav) that
\* arrives writes neither the token store nor the session-stored user.
C25_NoWriteAfterTeardown ==
  [][ ((~pageMounted \/ ~mounted)
         /\ (PageCalls(calls') # PageCalls(calls)
               \/ Len(topNavCalls') < Len(topNavCalls))) =>
        (cookies' = cookies /\ storedUser' = storedUser) ]_vars

\* ------------------------------------------------ token store: auth/cookie.ts
\* The strings the token store builds and parses are sequences of characters;
\* host names and cookie domains are sequences of labels (the string split
\* at "."), so ".synaptagrid.io" is <<"", "synaptagrid", "io">>.  The empty
\* sequence stands for the empty string and for null where the code tests
\* the value for truthiness.
MaxOps == 3        \* operations on the token store the model follows

\* The names written in the code, used when the environment gives none.
DefaultAccessCookieName ==
  <<"s","y","n","a","p","t","a","g","r","i","d","_",
    "a","c","c","e","s","s","_","t","o","k","e","n">>
DefaultRefreshCookieName ==
  <<"s","y","n","a","p","t","a","g","r","i","d","_",
    "r","e","f","r","e","s","h","_","t","o","k","e","n">>

\* The names a build can be given: none, a name of the deployment's own, and
\* for the refresh token also the name the access token has by default.  The
\* build reads the two variables independently, so both can name one cookie.
EnvAccessCookieNames == { NoName, <<"s","i","d">> }
EnvRefreshCookieNames == { NoName, <<"s","i","d">>, DefaultAccessCookieName }

\* process.env.REACT_APP_ACCESS_TOKEN_COOKIE_NAME || 'synaptagrid_access_token'
COOKIE_NAME ==
  IF envAccessCookieName # NoName THEN envAccessCookieName
  ELSE DefaultAccessCookieName

\* process.env.REACT_APP_REFRESH_TOKEN_COOKIE_NAME || 'synaptagrid_refresh_token'
REFRESH_COOKIE_NAME ==
  IF envRefreshCookieName # NoName THEN envRefreshCookieName
  ELSE DefaultRefreshCookieName

NoToken == <<>>

\* Token values, with the characters a cookie value cannot carry as they are.
TokenValues ==
  { <<"t","k">>, <<"a",";","b">>, <<" ","a">>, <<"%","4","1">>, <<"a","=">> }
\* The values and lifetimes the set operations are called with.
SetInputs ==
  {[value |-> v, maxAge |-> 3600] : v \in TokenValues}
    \cup {[value |-> <<"t","k">>, maxAge |-> 60]}

Hostnames ==
  { <<"localhost">>, <<"127","0","0","1">>, <<"192","168","0","5">>,
    <<"app","synaptagrid","io">>, <<"portal","synaptagrid","io">>,
    <<"app","example","co","uk">> }
Protocols == {"http:", "https:"}
EnvCookieDomains == { NoDomain, <<"synaptagrid","io">>, <<"","synaptagrid","io">> }

\* What a browser knows about names: the public suffixes among the labels
\* above, and which labels are numbers.
PublicSuffixes == { <<"io">>, <<"uk">>, <<"co","uk">> }
NumericLabels == {"0", "1", "5", "127", "168", "192"}
IsIPAddress(host) ==
  Len(host) = 4 /\ \A i \in 1..4 : host[i] \in NumericLabels

\* encodeURIComponent, character by character: unreserved characters pass,
\* the others become their percent escape.
EscapeOf(c) ==
  CASE c = ";" -> <<"%","3","B">>
    [] c = " " -> <<"%","2","0">>
    [] c = "=" -> <<"%","3","D">>
    [] c = "%" -> <<"%","2","5">>
    [] OTHER -> <<c>>

RECURSIVE EncodeComponent(_)
EncodeComponent(s) ==
  IF s = <<>> THEN <<>> ELSE EscapeOf(Head(s)) \o EncodeComponent(Tail(s))

\* decodeURIComponent: every "%" must start an escape, else it throws.
Unescape ==
  [p \in { <<"3","B">>, <<"2","0">>, <<"3","D">>, <<"2","5">>, <<"4","1">> } |->
     CASE p = <<"3","B">> -> ";"
       [] p = <<"2","0">> -> " "
       [] p = <<"3","D">> -> "="
       [] p = <<"2","5">> -> "%"
       [] OTHER -> "A"]

RECURSIVE DecodeComponent(_)
DecodeComponent(s) ==
  IF s = <<>> THEN [ok |-> TRUE, value |-> <<>>]
  ELSE IF Head(s) # "%"
    THEN LET r == DecodeComponent(Tail(s))
         IN [ok |-> r.ok, value |-> <<Head(s)>> \o r.value]
  ELSE IF Len(s) < 3 \/ <<s[2], s[3]>> \notin DOMAIN Unescape
    THEN [ok |-> FALSE, value |-> <<>>]
  ELSE LET r == DecodeComponent(SubSeq(s, 4, Len(s)))
       IN [ok |-> r.ok, value |-> <<Unescape[<<s[2], s[3]>>]>> \o r.value]

\* String.prototype.split, trim and startsWith.
RECURSIVE Split(_, _)
Split(s, ch) ==
  LET at == {i \in 1..Len(s) : s[i] = ch}
  IN IF at = {} THEN <<s>>
     ELSE LET i == CHOOSE k \in at : \A j \in at : k <= j
          IN <<SubSeq(s, 1, i - 1)>> \o Split(SubSeq(s, i + 1, Len(s)), ch)

RECURSIVE Trim(_)
Trim(s) ==
  IF s = <<>> THEN s
  ELSE IF Head(s) = " " THEN Trim(Tail(s))
  ELSE IF s[Len(s)] = " " THEN Trim(SubSeq(s, 1, Len(s) - 1))
  ELSE s

StartsWith(s, p) == Len(s) >= Len(p) /\ SubSeq(s, 1, Len(p)) = p

\* getCookieDomain(): the configured domain with a leading dot, else nothing
\* on localhost and 127.0.0.1, else the last two labels with a leading dot.
getCookieDomain(env, host) ==
  IF env # NoDomain THEN (IF Head(env) = "" THEN env ELSE <<"">> \o env)
  ELSE IF host = <<"localhost">> \/ host = <<"127","0","0","1">> THEN NoDomain
  ELSE IF Len(host) >= 2 THEN <<"">> \o SubSeq(host, Len(host) - 1, Len(host))
  ELSE NoDomain

\* Variant: every set writes the cookie of the access token.
SetCookieStringAccessName(name, value, maxAgeSeconds, env, host, proto) ==
  [pair |-> EncodeComponent(COOKIE_NAME) \o <<"=">> \o EncodeComponent(value),
   path |-> "/", maxAge |-> maxAgeSeconds, sameSite |-> "Lax",
   domain |-> getCookieDomain(env, host), secure |-> proto = "https:"]

\* The string set*TokenCookie assigns to document.cookie: the name-value pair
\* and the attributes joined after it.
SetCookieString(name, value, maxAgeSeconds, env, host, proto) ==
  [pair |-> EncodeComponent(name) \o <<"=">> \o EncodeComponent(value),
   path |-> "/", maxAge |-> maxAgeSeconds, sameSite |-> "Lax",
   domain |-> getCookieDomain(env, host), secure |-> proto = "https:"]

\* The string clear*TokenCookie assigns: empty value, max-age=0, no Secure.
ClearCookieString(name, env, host) ==
  [pair |-> EncodeComponent(name) \o <<"=">>,
   path |-> "/", maxAge |-> 0, sameSite |-> "Lax",
   domain |-> getCookieDomain(env, host), secure |-> FALSE]

\* ------------------------------------------------- document.cookie (browser)
\* Domain matching of the cookie standard: the same name, or a parent of a
\* host that is not an IP address.
DomainMatches(host, dom) ==
  \/ host = dom
  \/ /\ ~IsIPAddress(host)
     /\ Len(host) > Len(dom)
     /\ SubSeq(host, Len(host) - Len(dom) + 1, Len(host)) = dom

StripDot(d) == IF d # <<>> /\ Head(d) = "" THEN Tail(d) ELSE d

IndexOf(s, ch) ==
  LET at == {i \in 1..Len(s) : s[i] = ch}
  IN IF at = {} THEN 0 ELSE CHOOSE k \in at : \A j \in at : k <= j

\* The cookie a browser makes of an assigned string: the pair ends at the
\* first ";", the name at the first "=", both are trimmed; a domain attribute
\* that is a public suffix or does not match the host makes the browser
\* ignore the string, and so does Secure on a page not served over https.
ParsedCookie(str, host, proto) ==
  LET nv == Head(Split(str.pair, ";"))
      eq == IndexOf(nv, "=")
      dom == StripDot(str.domain)
      suffix == dom \in PublicSuffixes
  IN [name |-> Trim(SubSeq(nv, 1, eq - 1)),
      value |-> Trim(SubSeq(nv, eq + 1, Len(nv))),
      hostOnly |-> dom = <<>> \/ (suffix /\ dom = host),
      domain |-> IF dom = <<>> \/ suffix THEN host ELSE dom,
      path |-> str.path, maxAge |-> str.maxAge, sameSite |-> str.sameSite,
      secure |-> str.secure,
      ignored |-> \/ (dom # <<>> /\ suffix /\ dom # host)
                  \/ (dom # <<>> /\ ~suffix /\ ~DomainMatches(host, dom))
                  \/ (str.secure /\ proto # "https:")]

SameCookie(c, d) ==
  /\ c.name = d.name /\ c.domain = d.domain
  /\ c.hostOnly = d.hostOnly /\ c.path = d.path

\* document.cookie = str: a max-age of 0 or less removes the cookie; a cookie
\* already stored keeps its creation time, and with it its place in the
\* listing, when the value is the same, and is stored as a new cookie, last
\* in the listing, when the value changed; a new one is added last.
AssignDocumentCookie(j, str, host, proto) ==
  LET c == ParsedCookie(str, host, proto)
      stored == [k \in {"name", "value", "hostOnly", "domain", "path",
                        "maxAge", "sameSite", "secure"} |-> c[k]]
  IN IF c.ignored THEN j
     ELSE IF c.maxAge <= 0 THEN SelectSeq(j, LAMBDA d : ~SameCookie(d, c))
     ELSE IF \E i \in 1..Len(j) : SameCookie(j[i], c) /\ j[i].value = c.value
       THEN [i \in 1..Len(j) |-> IF SameCookie(j[i], c) THEN stored ELSE j[i]]
     ELSE Append(SelectSeq(j, LAMBDA d : ~SameCookie(d, c)), stored)

Visible(c, host, proto) ==
  /\ IF c.hostOnly THEN c.domain = host ELSE DomainMatches(host, c.domain)
  /\ c.secure => proto = "https:"

RECURSIVE JoinPairs(_)
JoinPairs(cs) ==
  IF cs = <<>> THEN <<>>
  ELSE LET pair == Head(cs).name \o <<"=">> \o Head(cs).value
       IN IF Len(cs) = 1 THEN pair
          ELSE pair \o <<";", " ">> \o JoinPairs(Tail(cs))

\* Reading document.cookie: the visible cookies as "name=value; name=value".
DocumentCookie(j, host, proto) ==
  JoinPairs(SelectSeq(j, LAMBDA c : Visible(c, host, proto)))

\* get*TokenCookie(): the first cookie of the split string that starts with
\* "<name>=", its value trimmed and decoded; null when none, when the value
\* does not decode and when it is empty.
ReadCookie(doc, cookieName) ==
  LET name == EncodeComponent(cookieName) \o <<"=">>
      cs == Split(doc, ";")
      hits == {i \in 1..Len(cs) : StartsWith(Trim(cs[i]), name)}
  IN IF hits = {} THEN NoToken
     ELSE LET i == CHOOSE k \in hits : \A m \in hits : k <= m
              t == Trim(cs[i])
              d == DecodeComponent(Trim(SubSeq(t, Len(name) + 1, Len(t))))
          IN IF d.ok THEN d.value ELSE NoToken

\* What getAccessTokenCookie() and getRefreshTokenCookie() return now.
AccessTokenNow == ReadCookie(DocumentCookie(jar, hostname, protocol), COOKIE_NAME)
RefreshTokenNow ==
  ReadCookie(DocumentCookie(jar, hostname, protocol), REFRESH_COOKIE_NAME)

\* What no operation of the token store changes: the environment of the build.
storeEnv == <<envCookieDomain, envAccessCookieName, envRefreshCookieName>>

otherVars == <<pendingVars, inputVars, pkce, cookies, providerVars,
               effectQueue, pageVars, calls, tokenReqLog, exchangeCalls,
               schedVars, now, navigated, authRequest, loginVars,
               landingVars, exchangeResult, pageMounted, storedUser>>

\* The record of an operation: its name, the value it was given, the max-age
\* and domain attributes of the string it assigned, the host it ran on and
\* what the two get operations returned before it.
Op(name, value, str) ==
  [op |-> name, value |-> value, maxAge |-> str.maxAge, domain |-> str.domain,
   host |-> hostname, accessBefore |-> AccessTokenNow,
   refreshBefore |-> RefreshTokenNow, count |-> lastOp.count + 1]

NoString == [maxAge |-> NoNum, domain |-> NoDomain]

\* A page of the application on some host, with nothing stored yet, after
\* its mount effects.
CookieInit ==
  /\ build = "v2"
  /\ url = [code |-> NULL, state |-> NULL] @@ NoError @@ NoHash
  /\ envAuthnUrl = "authnEnv"
  /\ envControlPlaneUrl = "cpEnv"
  /\ pkce = StoredPkce("s1", "v1")
  /\ cookies = NoCookies
  /\ config = "cfgA"
  /\ cachedBootstrapConfig = config
  /\ loading = FALSE
  /\ error = NULL
  /\ loads = {}
  /\ loadsStarted = 1
  /\ latestLoadResult = config
  /\ effectQueue = <<>>
  /\ status = "loading"
  /\ message = InitialMessage(build)
  /\ accessHint = NULL
  /\ userEmail = NULL
  /\ hasExchangedRef = FALSE
  /\ lastBranch = "none"
  /\ calls = <<>>
  /\ tokenReqLog = <<>>
  /\ exchangeCalls = 0
  /\ timer = NoTimer
  /\ refreshes = 0
  /\ lastRefresh = "none"
  /\ mounted = TRUE
  /\ pendingTimers = 0
  /\ lastArm = ArmRecord(cookies, NoTimer, 0)
  /\ now = 0
  /\ navigated = "none"
  /\ authRequest = NoAuthRequest
  /\ socialCalls = <<>>
  /\ bridgeLog = <<>>
  /\ socialError = NULL
  /\ lastBridge = NoBridgeAnswer
  /\ exchangeResult = "none"
  /\ pageMounted = TRUE
  /\ storedUser = NoStoredUser
  /\ storedUserFetchedAt = NoNum
  /\ topNavCalls = <<>>
  /\ authRedirects = <<>>
  /\ hostname \in Hostnames
  /\ protocol \in Protocols
  /\ envCookieDomain \in EnvCookieDomains
  /\ envAccessCookieName \in EnvAccessCookieNames
  /\ envRefreshCookieName \in EnvRefreshCookieNames
  /\ jar = <<>>
  /\ lastOp = NoOp
  /\ serverOrg = "org1"
  /\ hintOrg = NULL
  /\ portalUrl = NULL
  /\ portalCalls = <<>>
  /\ portalLog = 0
  /\ portalDeps = NoDeps

\* setAccessTokenCookie(value, maxAgeSeconds)
SetAccessToken ==
  /\ lastOp.count < MaxOps
  /\ \E in \in SetInputs :
       LET str == SetCookieString(COOKIE_NAME, in.value, in.maxAge,
                                  envCookieDomain, hostname, protocol)
       IN /\ jar' = AssignDocumentCookie(jar, str, hostname, protocol)
          /\ lastOp' = Op("setAccess", in.value, str)
  /\ UNCHANGED <<otherVars, hostname, protocol, storeEnv>>

\* clearAccessTokenCookie()
ClearAccessToken ==
  /\ lastOp.count < MaxOps
  /\ LET str == ClearCookieString(COOKIE_NAME, envCookieDomain, hostname)
     IN /\ jar' = AssignDocumentCookie(jar, str, hostname, protocol)
        /\ lastOp' = Op("clearAccess", NoToken, str)
  /\ UNCHANGED <<otherVars, hostname, protocol, storeEnv>>

\* setRefreshTokenCookie(value, maxAgeSeconds)
SetRefreshToken ==
  /\ lastOp.count < MaxOps
  /\ \E in \in SetInputs :
       LET str == SetCookieString(REFRESH_COOKIE_NAME, in.value, in.maxAge,
                                  envCookieDomain, hostname, protocol)
       IN /\ jar' = AssignDocumentCookie(jar, str, hostname, protocol)
          /\ lastOp' = Op("setRefresh", in.value, str)
  /\ UNCHANGED <<otherVars, hostname, protocol, storeEnv>>

\* clearRefreshTokenCookie()
ClearRefreshToken ==
  /\ lastOp.count < MaxOps
  /\ LET str == ClearCookieString(REFRESH_COOKIE_NAME, envCookieDomain, hostname)
     IN /\ jar' = AssignDocumentCookie(jar, str, hostname, protocol)
        /\ lastOp' = Op("clearRefresh", NoToken, str)
  /\ UNCHANGED <<otherVars, hostname, protocol, storeEnv>>

\* The user opens another application of the deployment: the same browser,
\* the same build, another host.
OpenHost ==
  /\ lastOp.count < MaxOps
  /\ \E h \in Hostnames \ {hostname} : hostname' = h
  /\ lastOp' = Op("open", NoToken, NoString)
  /\ UNCHANGED <<otherVars, protocol, storeEnv, jar>>

CookieNext ==
  \/ SetAccessToken
  \/ ClearAccessToken
  \/ SetRefreshToken
  \/ ClearRefreshToken
  \/ OpenHost

CookieSpec == CookieInit /\ [][CookieNext]_vars

\* C26: for every non-empty token value and positive max-age, a set followed
\* by a get returns the value, and a clear followed by a get returns null,
\* after any earlier sequence of set and clear operations on either token;
\* for the access token and for the refresh token alike.
C26_SetGetClearRoundTrip ==
  /\ lastOp.op = "setAccess" => AccessTokenNow = lastOp.value
  /\ lastOp.op = "clearAccess" => AccessTokenNow = NoToken
  /\ lastOp.op = "setRefresh" => RefreshTokenNow = lastOp.value
  /\ lastOp.op = "clearRefresh" => RefreshTokenNow = NoToken

\* The scope the claim describes: nothing on localhost and loopback hosts
\* and on single-label hosts, else the last two labels behind a dot.
ParentDomain(host) ==
  IF host = <<"localhost">> \/ (IsIPAddress(host) /\ host[1] = "127")
       \/ Len(host) < 2
    THEN NoDomain
    ELSE <<"">> \o SubSeq(host, Len(host) - 1, Len(host))

Siblings(h, g) ==
  /\ h # g /\ Len(h) > 2 /\ Len(g) > 2
  /\ ParentDomain(h) = ParentDomain(g)

\* C27: set and clear use as cookie domain the parent domain made of the
\* last two labels of the host name, so a token set on one subdomain is
\* read on a sibling subdomain; on localhost and loopback hosts they apply
\* no domain attribute.
C27_ParentDomainScope ==
  /\ lastOp.op \in {"setAccess", "clearAccess", "setRefresh", "clearRefresh"}
       => lastOp.domain = ParentDomain(lastOp.host)
  /\ (lastOp.op = "open" /\ Siblings(lastOp.host, hostname))
       => /\ AccessTokenNow = lastOp.accessBefore
          /\ RefreshTokenNow = lastOp.refreshBefore

\* The step of the callback effect that takes the fragment branch.
FragmentStep == ~hasExchangedRef /\ hasExchangedRef' /\ lastBranch' = "fragment"

\* The token pair of the store is the pair of token response t, each token
\* with the lifetime the response reports for it.
StoredWithReportedLifetime(c, t) ==
  /\ c.access = TokenData[t].access_token
  /\ c.accessMaxAge = TokenData[t].expires_in
  /\ TokenData[t].refresh_token # NULL =>
       /\ c.refresh = TokenData[t].refresh_token
       /\ TokenData[t].refresh_expires_in # NoNum =>
            c.refreshMaxAge = TokenData[t].refresh_expires_in

\* C28: wherever a token is persisted (fragment callback, code callback,
\* refresh) the max-age of its cookie is the lifetime the token response
\* reported for it: expires_in for the access token, refresh_expires_in for
\* the refresh token.
C28_MaxAgeIsReportedLifetime ==
  [][ (cookies' # cookies /\ cookies'.access # NULL) =>
        IF FragmentStep
          THEN /\ url.h_expires # NoNum => cookies'.accessMaxAge = url.h_expires
               /\ (url.h_refresh # NULL /\ url.h_refresh_expires # NoNum) =>
                    cookies'.refreshMaxAge = url.h_refresh_expires
          ELSE \E t \in TokenResponses : StoredWithReportedLifetime(cookies', t)
    ]_vars

\* C29: the callback is classified by strict priority, error indicator, then
\* fragment access token, then code and state.  A URL with the error
\* indicator and a fragment token or a code ends in status error, no token is
\* written to the store and no exchange is started; a URL with a fragment
\* token and code and state has the fragment tokens persisted (they stay
\* until a refresh replaces them) and never starts the exchange.  The second
\* part is about the page that knows the fragment shape.
C29_ClassificationPriority ==
  /\ (url.err /\ (url.h_access # NULL \/ url.code # NULL)) =>
       /\ exchangeCalls = 0
       /\ ExchangeRequests = 0
       /\ CallsOf(calls, "exchange") = 0
       /\ cookies = NoCookies
       /\ lastBranch # "none" => status = "error"
  /\ (build # "legacy" /\ ~url.err /\ url.h_access # NULL
        /\ url.code # NULL /\ url.state # NULL) =>
       /\ exchangeCalls = 0
       /\ ExchangeRequests = 0
       /\ CallsOf(calls, "exchange") = 0
       /\ (lastBranch # "none" /\ refreshes = 0) =>
            /\ cookies.access = url.h_access
            /\ cookies.refresh = url.h_refresh

\* ------------------------------------- AuthCallbackPage: the way onward
\* getPortalBaseUrl() without REACT_APP_PORTAL_BASE_URL.
defaultPortalUrl == "https://portal.local.synaptagrid.io:3203"

ServerOrgs == {NULL, "org1"}

\* Render: the card of a ready page holds the "Go to Portal" link unless the
\* action of the hint is contact_admin.
ContinueLink(st, hint) == st = "ready" /\ hint # NULL /\ hint # "contact_admin"

\* (portalUrl ?? defaultPortalUrl).replace(/\/$/, '')
portalLinkUrl(pu) ==
  StripTrailingSlash(IF pu # NULL THEN pu ELSE defaultPortalUrl)

\* The callback page of the current build from its mount to the outcome it
\* shows, for callbacks that can reach ready; the store is empty at first
\* and the refresh timer does not fire while the page is followed.
ReadyInit ==
  /\ build = "v2"
  /\ url \in {u \in CallbackUrls : ~u.err /\ u.state # "s2"
                /\ (u.h_access # NULL \/ (u.code # NULL /\ u.state # NULL))}
  /\ envAuthnUrl \in (IF parseFragmentTokens(url).ok
                        THEN EnvAuthnUrls ELSE {"authnEnv"})
  /\ envControlPlaneUrl = "cpEnv"
  /\ pkce = StoredPkce("s1", "v1")
  /\ cookies = NoCookies
  /\ config = NULL
  /\ loading = TRUE
  /\ error = NULL
  /\ cachedBootstrapConfig = NULL
  /\ loads = {}
  /\ loadsStarted = 0
  /\ latestLoadResult = "none"
  /\ effectQueue = MountEffects(build)
  /\ status = "loading"
  /\ message = InitialMessage(build)
  /\ accessHint = NULL
  /\ userEmail = NULL
  /\ hasExchangedRef = FALSE
  /\ lastBranch = "none"
  /\ calls = <<>>
  /\ tokenReqLog = <<>>
  /\ exchangeCalls = 0
  /\ timer = NoTimer
  /\ refreshes = 0
  /\ lastRefresh = "none"
  /\ mounted = TRUE
  /\ pendingTimers = 0
  /\ lastArm = NoArm
  /\ now = 0
  /\ navigated = "none"
  /\ authRequest = NoAuthRequest
  /\ socialCalls = <<>>
  /\ bridgeLog = <<>>
  /\ socialError = NULL
  /\ lastBridge = NoBridgeAnswer
  /\ exchangeResult = "none"
  /\ pageMounted = TRUE
  /\ storedUser = NoStoredUser
  /\ storedUserFetchedAt = NoNum
  /\ topNavCalls = <<>>
  /\ authRedirects = <<>>
  /\ hostname = <<"localhost">>
  /\ protocol = "http:"
  /\ envCookieDomain = NoDomain
  /\ envAccessCookieName = NoName
  /\ envRefreshCookieName = NoName
  /\ jar = <<>>
  /\ lastOp = NoOp
  /\ serverOrg \in ServerOrgs
  /\ hintOrg = NULL
  /\ portalUrl = NULL
  /\ portalCalls = <<>>
  /\ portalLog = 0
  /\ portalDeps = NoDeps

ReadyNext ==
  \/ EffectCallback
  \/ EffectTopNav
  \/ EffectLoad
  \/ EffectCache
  \/ EffectTokenRefresh
  \/ LoadSucceeds
  \/ LoadFails
  \/ ExchangeSettles
  \/ AccountResolutionB
  \/ AccountResolutionA
  \/ CurrentUser
  \/ EffectPortal
  \/ PortalAnswers

ReadySpec == ReadyInit /\ [][ReadyNext]_vars

\* C30: once status is ready, the link to continue to the application is
\* offered exactly when the action of the hint is ok or personal_org_created;
\* for contact_admin no link is offered and no landing URL is looked up.
C30_ContinueLinkByAction ==
  status = "ready" =>
    /\ ContinueLink(status, accessHint)
         <=> accessHint \in {"ok", "personal_org_created"}
    /\ accessHint = "contact_admin" =>
         /\ ~ContinueLink(status, accessHint)
         /\ portalLog = 0 /\ portalCalls = <<>> /\ portalUrl = NULL

\* Ready with contact_admin and a bound organization, after the portal
\* effect ran for this hint.
C30_Witness ==
  /\ status = "ready"
  /\ accessHint = "contact_admin"
  /\ hintOrg = "org1"
  /\ portalDeps = <<hintOrg, accessHint>>
  /\ ~ContinueLink(status, accessHint)
  /\ portalLog = 0

\* Ready with personal_org_created: the link is offered and leads to the
\* landing URL the look-up returned.
C30_WitnessContinue ==
  /\ status = "ready"
  /\ accessHint = "personal_org_created"
  /\ ContinueLink(status, accessHint)
  /\ portalLog = 1 /\ portalCalls = <<>>
  /\ portalLinkUrl(portalUrl) = "portalT"

\* ---------------------------------------------------------------- C31
\* C31: whenever the status of the callback page is ready, an access hint has
\* been set: every path assigns the hint before or together with the
\* transition to ready (the account-resolution answer in the code+state path
\* and in the fragment path with an identity token, the local hint in the
\* fragment path without one, whether the current-user call succeeded,
\* failed or was never made).
C31_ReadyHasAccessHint ==
  /\ status = "ready" => accessHint \in AccessHints
  /\ (status = "ready" /\ lastBranch = "fragment"
        /\ parseFragmentTokens(url).id_token = NULL)
       => accessHint = "ok"

\* The current-user call of a fragment callback was made and failed, and the
\* page is ready with the local hint and no user address.
C31_Witness ==
  /\ status = "ready"
  /\ lastBranch = "fragment"
  /\ FragmentLookup(parseFragmentTokens(url), AuthnBaseUrl(config, envAuthnUrl)) = "me"
  /\ calls = <<>>
  /\ userEmail = NULL
  /\ accessHint = "ok"

\* ---------------------------------------------------------------- C32
\* The step in which a call of the given kind is answered.
Answered(kind) == CallsOf(calls', kind) < CallsOf(calls, kind)

\* C32: in the code+state path the token pair is written to the store only
\* after the account-resolution call succeeded.  The answer of the exchange
\* writes nothing; the answer of the account resolution either puts the page
\* in ready or puts it in error and leaves the store as it was; every write
\* that is not the refresh scheduler's is made by the step that puts the page
\* in ready; and ready and error are never left, so a page in error in this
\* path has persisted no token.
C32_PersistOnlyAfterAccountResolution ==
  [][ ExchangeShape(url) =>
        /\ Answered("exchange") => cookies' = cookies
        /\ Answered("acctB") =>
             \/ status' = "ready"
             \/ status' = "error" /\ cookies' = cookies
        /\ (cookies' # cookies /\ ~Answered("refresh")) =>
             (Answered("acctB") /\ status' = "ready")
        /\ status \in {"ready", "error"} => status' = status
    ]_vars

\* The exchange returned a token pair, the account resolution failed: the
\* page is in error and the store is as empty as the browser arrived.
C32_Witness ==
  /\ build # "legacy"
  /\ ExchangeShape(url)
  /\ exchangeResult = "tokens"
  /\ CallsOf(calls, "acctB") = 0
  /\ status = "error"
  /\ cookies = NoCookies

\* ---------------------------------------------------------------- C33
\* What the event loop guarantees: a queued effect runs, a request in flight
\* is answered or fails, a timer that is due fires, time passes.  Answers,
\* timers and the clock wait for the effects of a commit to be flushed, and
\* no sequence of commits keeps them waiting for ever (strong fairness).
\* Nothing forces a reload, another evaluation of the callback effect, an
\* unmount or a route change.
Scheduling ==
  /\ WF_vars(EffectTopNav)
  /\ WF_vars(EffectCallback)
  /\ WF_vars(EffectPortal)
  /\ WF_vars(EffectLoad)
  /\ WF_vars(EffectCache)
  /\ WF_vars(EffectTokenRefresh)
  /\ SF_vars(LoadSucceeds \/ LoadFails)
  /\ SF_vars(ExchangeSettles)
  /\ SF_vars(AccountResolutionB)
  /\ SF_vars(AccountResolutionA)
  /\ SF_vars(TimerFires)
  /\ SF_vars(RefreshSucceeds \/ RefreshFails)
  /\ SF_vars(Tick)
  /\ SF_vars(FetchCurrentUserSettles)

\* Page loads of the current build whose callback URL brings a token pair:
\* code and state, or a fragment with access and refresh token.  The account
\* resolution binds no organization, so the page makes no portal look-up.
LiveInit ==
  /\ InitFor(NULL)
  /\ build = "v2"
  /\ ExchangeShape(url) \/ (FragmentShape(url) /\ url.h_refresh # NULL)

\* The steps of such a page load while the user stays on the callback page:
\* nobody follows a link to another page, asks for a reload of the tenant
\* configuration or clicks the button of the error card.  They are those of
\* Next without the earlier page's, without the current-user call of the
\* page, which no such URL leads to, without the uncaught error, which takes
\* an error callback, and without the answer of the portal look-up, which
\* is not made.
LiveNext ==
  \/ EffectCallback
  \/ EffectPortal
  \/ EffectTopNav
  \/ FetchCurrentUserSettles
  \/ EffectLoad
  \/ EffectCache
  \/ EffectTokenRefresh
  \/ LoadSucceeds
  \/ LoadFails
  \/ Reevaluate
  \/ ExchangeSettles
  \/ AccountResolutionB
  \/ AccountResolutionA
  \/ TimerFires
  \/ RefreshSucceeds
  \/ RefreshFails
  \/ Unmount
  \/ Tick

LiveSpec == LiveInit /\ [][LiveNext]_vars /\ Scheduling

\* Access tokens whose expiry claim decodes.
DecodableTokens == {a \in DOMAIN TokenExp : TokenExp[a] \notin {NoNum, NaN}}

\* The page with the scheduler is ready and the store holds access token a
\* together with a refresh token.
ReadyWithPair(a) ==
  /\ build # "legacy"
  /\ OnPage /\ mounted
  /\ status = "ready"
  /\ getAccessTokenCookie(cookies) = a
  /\ getRefreshTokenCookie(cookies) # NULL

\* The last call of scheduleRefresh armed a timer for access token a.
ArmedFor(a) == lastArm.result = "armed" /\ lastArm.exp = TokenExp[a]

\* A timer is pending and the model follows no further firing.
TimerBeyondBound == timer.pending /\ refreshes >= MaxRefreshes

\* C33: whenever the callback page has reached ready and the store holds an
\* access token with a decodable expiry and a refresh token, the scheduler of
\* the same page eventually has a timer armed for that access token (unless
\* the page is left, App is unmounted or the store is rewritten first; a
\* pending timer the model does not follow further counts in the claim's
\* favour), in the fragment path and in the code+state path alike.
C33_ReadyPairGetsTimer ==
  \A a \in DecodableTokens :
    ReadyWithPair(a) ~> (ArmedFor(a) \/ ~ReadyWithPair(a) \/ TimerBeyondBound)

\* ---------------------------------------------------------------- C34
\* The step in which the refresh timer fires.
TimerFiresStep == refreshes' = refreshes + 1

\* C34: the refresh token sent when the timer fires is the refresh token that
\* is in the store at firing time, also when the store was rewritten between
\* arming and firing.
C34_RefreshSendsStoredToken ==
  [][ TimerFiresStep =>
        /\ Len(tokenReqLog') = Len(tokenReqLog) + 1
        /\ tokenReqLog'[Len(tokenReqLog')].grant = "refresh_token"
        /\ tokenReqLog'[Len(tokenReqLog')].code = getRefreshTokenCookie(cookies)
    ]_vars

\* ---------------------------------------------------------------- C35
\* Stores the browser can arrive with on a page that brings no token of its
\* own: nothing, a pair with a decodable access token, a pair whose access
\* token does not decode, a pair whose access token decodes without an
\* expiry claim, and the token that does not decode without a refresh token.
StoredPairs ==
  { NoCookies,
    [access |-> "A60", accessMaxAge |-> 60, refresh |-> "R0", refreshMaxAge |-> 1800],
    [access |-> "Abad", accessMaxAge |-> 60, refresh |-> "R0", refreshMaxAge |-> 1800],
    [access |-> "Anoexp", accessMaxAge |-> 60, refresh |-> "R0", refreshMaxAge |-> 1800],
    [access |-> "Abad", accessMaxAge |-> 60, refresh |-> NULL, refreshMaxAge |-> NoNum] }

\* App mounted on a callback URL without code, state or fragment, over each
\* of these stores.
SchedInit ==
  /\ build = "v2"
  /\ url = [code |-> NULL, state |-> NULL] @@ NoError @@ NoHash
  /\ envAuthnUrl = "authnEnv"
  /\ envControlPlaneUrl = "cpEnv"
  /\ pkce = StoredPkce("s1", "v1")
  /\ cookies \in StoredPairs
  /\ config = NULL
  /\ loading = TRUE
  /\ error = NULL
  /\ cachedBootstrapConfig = NULL
  /\ loads = {}
  /\ loadsStarted = 0
  /\ latestLoadResult = "none"
  /\ effectQueue = MountEffects("v2")
  /\ status = "loading"
  /\ message = InitialMessage("v2")
  /\ accessHint = NULL
  /\ userEmail = NULL
  /\ hasExchangedRef = FALSE
  /\ lastBranch = "none"
  /\ calls = <<>>
  /\ tokenReqLog = <<>>
  /\ exchangeCalls = 0
  /\ timer = NoTimer
  /\ refreshes = 0
  /\ lastRefresh = "none"
  /\ mounted = TRUE
  /\ pendingTimers = 0
  /\ lastArm = NoArm
  /\ now = 0
  /\ navigated = "none"
  /\ authRequest = NoAuthRequest
  /\ socialCalls = <<>>
  /\ bridgeLog = <<>>
  /\ socialError = NULL
  /\ lastBridge = NoBridgeAnswer
  /\ exchangeResult = "none"
  /\ pageMounted = TRUE
  /\ storedUser = NoStoredUser
  /\ storedUserFetchedAt = NoNum
  /\ topNavCalls = <<>>
  /\ authRedirects = <<>>
  /\ hostname = <<"localhost">>
  /\ protocol = "http:"
  /\ envCookieDomain = NoDomain
  /\ envAccessCookieName = NoName
  /\ envRefreshCookieName = NoName
  /\ jar = <<>>
  /\ lastOp = NoOp
  /\ serverOrg = "org1"
  /\ hintOrg = NULL
  /\ portalUrl = NULL
  /\ portalCalls = <<>>
  /\ portalLog = 0
  /\ portalDeps = NoDeps

\* The steps of such a page load.
SchedNext ==
  \/ EffectCallback
  \/ EffectPortal
  \/ EffectTopNav
  \/ FetchCurrentUserSettles
  \/ EffectLoad
  \/ EffectCache
  \/ EffectTokenRefresh
  \/ Reload
  \/ LoadSucceeds
  \/ LoadFails
  \/ Reevaluate
  \/ StartAuthRedirect
  \/ StartAuthRedirectResumes
  \/ TimerFires
  \/ RefreshSucceeds
  \/ RefreshFails
  \/ Unmount
  \/ Tick

SchedSpec == SchedInit /\ [][SchedNext]_vars

\* The store holds both tokens and the access token's expiry does not decode.
UndecodablePair(c) ==
  /\ getAccessTokenCookie(c) # NULL
  /\ getRefreshTokenCookie(c) # NULL
  /\ TokenExp[getAccessTokenCookie(c)] = NoNum

\* C35: if both tokens are present but the expiry claim of the access token
\* cannot be decoded, the scheduler arms no timer, sends no refresh request
\* and leaves both stored tokens unchanged.
C35_UndecodableTokenIsIgnored ==
  /\ [](UndecodablePair(cookies) =>
          /\ ~timer.pending
          /\ pendingTimers = 0
          /\ refreshes = 0
          /\ RefreshRequests = 0
          /\ CallsOf(calls, "refresh") = 0
          /\ navigated # "login"
          /\ lastArm.result \in {"none", "undecodable"})
  /\ [][UndecodablePair(cookies) => cookies' = cookies]_vars

\* scheduleRefresh ran over such a pair and the page load has settled with
\* the pair still stored.
C35_Witness ==
  /\ UndecodablePair(cookies)
  /\ lastArm.result = "undecodable"
  /\ effectQueue = <<>>
  /\ loads = {}
  /\ loadsStarted = MaxLoads

\* ---------------------------------------------------------------- C36
\* C36, as the claim states it: the access token and the refresh token are
\* stored independently: setAccess and clearAccess leave the value returned
\* by getRefresh unchanged, and setRefresh and clearRefresh leave the value
\* returned by getAccess unchanged, after any sequence of operations, in
\* every build.
C36_TokensAreIndependent ==
  /\ lastOp.op \in {"setAccess", "clearAccess"} =>
       RefreshTokenNow = lastOp.refreshBefore
  /\ lastOp.op \in {"setRefresh", "clearRefresh"} =>
       AccessTokenNow = lastOp.accessBefore

\* C36, amended: in a build whose two cookie names differ (the names of the
\* code, or names of the environment that are not the same), setAccess and
\* clearAccess leave the value returned by getRefresh unchanged, and
\* setRefresh and clearRefresh leave the value returned by getAccess
\* unchanged, after any sequence of operations.
C36_DistinctNamesAreIndependent ==
  COOKIE_NAME # REFRESH_COOKIE_NAME =>
    /\ lastOp.op \in {"setAccess", "clearAccess"} =>
         RefreshTokenNow = lastOp.refreshBefore
    /\ lastOp.op \in {"setRefresh", "clearRefresh"} =>
         AccessTokenNow = lastOp.accessBefore

\* A build that keeps the refresh token under the name the code gives the
\* access token, and the access token under a name of its own: a set of the
\* access token took effect while a refresh token was stored, and the
\* refresh token reads as before.
C36_Witness ==
  /\ envAccessCookieName # NoName
  /\ envRefreshCookieName = DefaultAccessCookieName
  /\ lastOp.op = "setAccess"
  /\ lastOp.refreshBefore # NoToken
  /\ AccessTokenNow # lastOp.accessBefore
  /\ AccessTokenNow = lastOp.value
  /\ RefreshTokenNow = lastOp.refreshBefore

\* ---------------------------------------------------------------- C37
\* C37: a failed tenant resolution never changes the process-wide cache.
\* The cache only ever holds a bundle the resolution endpoint returned, and
\* it changes only in the commit that exposes such a bundle, so after a
\* success followed by a failed reload the accessor still returns the bundle
\* of the last successful resolution.
C37_FailureKeepsCache ==
  /\ [](getBootstrapConfig \in ServerConfigs \cup {NULL})
  /\ [][ cachedBootstrapConfig' # cachedBootstrapConfig =>
           /\ config \in ServerConfigs
           /\ cachedBootstrapConfig' = config
       ]_vars

\* ---------------------------------------------------------------- C38
\* C38: when two tenant resolutions overlap (a reload started while an
\* earlier load is still in flight), after both have completed and the
\* effects of the commit have run, the exposed config and the cache hold the
\* bundle of the resolution that was started last, whatever the order in
\* which the two responses arrive.
C38_LastStartedResolutionWins ==
  (/\ loadsStarted >= 2
   /\ loads = {}
   /\ effectQueue = <<>>
   /\ latestLoadResult \in ServerConfigs)
    => /\ config = latestLoadResult
       /\ getBootstrapConfig = latestLoadResult

\* ---------------------------------------------------------------- C39
\* The step in which a tenant resolution attempt ends.
ResolutionEnds == loads' # loads /\ loads' \subseteq loads

\* C39: every tenant resolution attempt ends with loading false, and at that
\* point exactly one of the exposed config and the exposed error is non-null
\* (a success exposes a config and no error, a failure an error and no
\* config).
C39_ExactlyOneOfConfigAndError ==
  [][ ResolutionEnds =>
        /\ loading' = FALSE
        /\ (config' # NULL) # (error' # NULL)
    ]_vars

====
